---- MODULE Spec2Model ----
(***************************************************************************)
(* Model of the MTender MCP server's document pipeline                     *)
(* (src/src/handlers/tools.ts, case "fetch_tender_document") and of the    *)
(* helpers it uses (src/src/handlers/utils.ts).                            *)
(*                                                                         *)
(* JavaScript strings are TLA+ strings; TLC treats them as sequences of    *)
(* characters (Len, SubSeq, \o).  An optional value (string | undefined)   *)
(* is a sequence of length at most one: << >> is undefined, <<s>> is s.    *)
(***************************************************************************)
EXTENDS Integers, Sequences, FiniteSets, TLC

VARIABLES
    \* ---- CallTool handler, one invocation of fetch_tender_document
    pc,                  \* position of the async handler
    activeRequestsCount, \* utils.ts module-level counter
    documentUrl,         \* String(request.params.arguments?.documentUrl)
    storeSilent,         \* environment: the document store never answers the GET
    httpRequests,        \* number of axios({method:'get', ...}) calls issued
    contentType,         \* response.headers['content-type']   (optional)
    disposition,         \* response.headers['content-disposition'] (optional)
    filename,            \* parsed filename (optional)
    strategy,            \* branch of the content-type dispatch that was taken
    decodersRun,         \* decoders invoked so far, in call order
    outcome,             \* what left the wrapped CallTool handler
    \* ---- streamToBuffer
    listening,           \* the three listeners are registered on the stream
    chunks,              \* const chunks: Buffer[]
    promise,             \* the promise streamToBuffer returned
    emitted,             \* history: the events the stream has emitted
    \* ---- pure functions applied to drawn inputs
    rawText,             \* extracted text handed to the normalizer
    cleanedText,         \* its normalization (optional: << >> before the call)
    headerParams,        \* parameters the content-disposition header is made of
    headerAbsent,        \* TRUE when the response has no content-disposition
    parsedName,          \* <<filename>> once parsed (filename is optional)
    \* ---- several invocations of fetch_tender_document in flight
    calls,               \* per invocation: position, request, response, outcome
    chunkStores,         \* the chunks arrays of the streamToBuffer calls
    \* ---- ReadResource handler, one request
    resPc,               \* position of the async handler
    resUri,              \* request.params.uri
    resBranch,           \* branch of the resource dispatch that was taken
    resRequest,          \* URL of the axios.get issued (optional)
    resResponse,         \* response.data of the API's answer (optional)
    resOutcome,          \* what left the wrapped ReadResource handler
    \* ---- CallTool handler, one invocation of search_tenders
    searchPc,            \* position of the async handler
    searchArgs,          \* request.params.arguments
    searchRequest,       \* URL of the axios.get issued (optional)
    searchUpstream,      \* response.data.data of the API's answer
    searchOutcome,       \* what left the wrapped CallTool handler
    \* ---- CallTool handler, one request for any tool
    toolPc,              \* position of the async handler
    toolName,            \* request.params.name
    toolArgs,            \* request.params.arguments
    toolRequest,         \* URL of the axios call issued (optional)
    toolFailure,         \* the error the axios call rejected with, if it did
    toolOutcome,         \* what left the wrapped CallTool handler
    \* ---- createLoggingHandler, several invocations of a wrapped handler
    wrapped,             \* per invocation of a wrapped handler: position, request, settlements
    \* ---- setupConnectionMonitoring
    monNow,              \* Date.now() of the monitor, ms since setupConnectionMonitoring
    lastMessageTime,     \* the monitor's timestamp
    connectionHealthy,   \* the monitor's flag
    nextCheck,           \* when the connection check is due
    nextPing,            \* when the ping is due
    lastClientMessage,   \* when the client's last message arrived (history)
    lastCheck,           \* what the last connection check saw and left (history)
    monLog,              \* the monitor's warn and info entries
    \* ---- Logger
    envLevel,            \* process.env.DEBUG_LEVEL when the module was loaded
    loggerObj,           \* the Logger: whether constructed, its option, logLevel and logToFile
    logFile,             \* the entries appended to LOG_FILE
    lastLog              \* the last call of log and whether it wrote (history)

handlerVars == <<pc, activeRequestsCount, documentUrl, storeSilent, httpRequests,
                 contentType, disposition, filename, strategy, decodersRun, outcome>>
streamVars  == <<listening, chunks, promise, emitted>>
normVars    == <<rawText, cleanedText>>
nameVars    == <<headerParams, headerAbsent, parsedName>>
concVars    == <<calls, chunkStores>>
searchVars  == <<searchPc, searchArgs, searchRequest, searchUpstream, searchOutcome>>
resVars     == <<resPc, resUri, resBranch, resRequest, resResponse, resOutcome>>
toolVars    == <<toolPc, toolName, toolArgs, toolRequest, toolFailure, toolOutcome>>
wrapVars    == <<wrapped>>
monVars     == <<monNow, lastMessageTime, connectionHealthy, nextCheck, nextPing, lastClientMessage, lastCheck, monLog>>
logVars     == <<envLevel, loggerObj, logFile, lastLog>>
vars        == <<handlerVars, streamVars, normVars, nameVars, concVars, resVars, searchVars, toolVars, wrapVars, monVars, logVars>>

-----------------------------------------------------------------------------
(* Bounds of the model                                                     *)

\* longest identifier tail appended to the storage prefix
MaxTail == 3
\* most events one stream emits
MaxEvents == 3
\* longest extracted text drawn for the normalizer
MaxTextLen == 6
\* most parameters in one content-disposition header
MaxParams == 3

-----------------------------------------------------------------------------
(* JavaScript values and string primitives                                 *)

Undefined == << >>
Some(s) == <<s>>
IsDefined(v) == v # Undefined
Val(v) == v[1]

\* String(x): the argument as a string; a missing argument is "undefined"
JSString(v) == IF IsDefined(v) THEN Val(v) ELSE "undefined"

CharAt(s, i) == SubSeq(s, i, i)
Drop(s, n) == SubSeq(s, n + 1, Len(s))

\* String.prototype.startsWith
StartsWith(s, p) == Len(s) >= Len(p) /\ SubSeq(s, 1, Len(p)) = p

\* positions at which sub occurs in s
Occurrences(s, sub) ==
    {i \in 1..(Len(s) - Len(sub) + 1) : SubSeq(s, i, i + Len(sub) - 1) = sub}

\* String.prototype.includes
Includes(s, sub) == Occurrences(s, sub) # {}

Min(S) == CHOOSE x \in S : \A y \in S : x <= y

\* String.prototype.split(sep) for a non-empty string separator
RECURSIVE Split(_, _)
Split(s, sep) ==
    LET occ == Occurrences(s, sep)
    IN  IF occ = {} THEN <<s>>
        ELSE LET i == Min(occ)
             IN  <<SubSeq(s, 1, i - 1)>> \o Split(Drop(s, i + Len(sep) - 1), sep)

\* arr[i] of a JavaScript array: undefined past the end (i is 0-based)
At(arr, i) == IF i + 1 <= Len(arr) THEN Some(arr[i + 1]) ELSE Undefined

\* s.replace(/c/g, '') for a single character c
RECURSIVE RemoveChar(_, _)
RemoveChar(s, c) ==
    IF s = "" THEN ""
    ELSE IF CharAt(s, 1) = c THEN RemoveChar(Drop(s, 1), c)
    ELSE CharAt(s, 1) \o RemoveChar(Drop(s, 1), c)

\* all strings over Alphabet of length at most n
RECURSIVE Strings(_, _)
Strings(Alphabet, n) ==
    IF n = 0 THEN {""}
    ELSE LET S == Strings(Alphabet, n - 1)
         IN  S \cup {s \o c : s \in S, c \in Alphabet}

\* elements of a sequence joined with a separator (Array.prototype.join)
RECURSIVE Join(_, _)
Join(parts, sep) ==
    IF parts = << >> THEN ""
    ELSE IF Len(parts) = 1 THEN parts[1]
    ELSE parts[1] \o sep \o Join(Tail(parts), sep)

\* sequences over S of length at most n
RECURSIVE SeqsUpTo(_, _)
SeqsUpTo(S, n) ==
    IF n = 0 THEN {<< >>}
    ELSE LET R == SeqsUpTo(S, n - 1)
         IN  R \cup {Append(r, x) : r \in R, x \in S}

-----------------------------------------------------------------------------
(* Text normalizer: tools.ts 665-668                                       *)

\* .replace(/\r\n/g, '\n'): one left-to-right pass over the input
RECURSIVE ReplaceCRLF(_)
ReplaceCRLF(s) ==
    IF s = "" THEN ""
    ELSE IF StartsWith(s, "\r\n") THEN "\n" \o ReplaceCRLF(Drop(s, 2))
    ELSE CharAt(s, 1) \o ReplaceCRLF(Drop(s, 1))

\* length of the run of LF characters s starts with
RECURSIVE LFRun(_)
LFRun(s) == IF s # "" /\ CharAt(s, 1) = "\n" THEN 1 + LFRun(Drop(s, 1)) ELSE 0

\* a faulty variant: the quantifier is {3} instead of {3,}
RECURSIVE CollapseExactlyThree(_)
CollapseExactlyThree(s) ==
    IF s = "" THEN ""
    ELSE IF LFRun(s) >= 3 THEN "\n\n" \o CollapseExactlyThree(Drop(s, 3))
    ELSE CharAt(s, 1) \o CollapseExactlyThree(Drop(s, 1))

\* .replace(/\n{3,}/g, '\n\n'): each maximal run of 3 or more LF becomes 2
RECURSIVE CollapseLF(_)
CollapseLF(s) ==
    IF s = "" THEN ""
    ELSE LET r == LFRun(s)
         IN  IF r >= 3 THEN "\n\n" \o CollapseLF(Drop(s, r))
             ELSE IF r >= 1 THEN SubSeq(s, 1, r) \o CollapseLF(Drop(s, r))
             ELSE CharAt(s, 1) \o CollapseLF(Drop(s, 1))

\* the white space String.prototype.trim removes, among the characters drawn
WhiteSpace == {" ", "\t", "\n", "\r"}

RECURSIVE TrimStart(_)
TrimStart(s) ==
    IF s # "" /\ CharAt(s, 1) \in WhiteSpace THEN TrimStart(Drop(s, 1)) ELSE s

RECURSIVE TrimEnd(_)
TrimEnd(s) ==
    IF s # "" /\ CharAt(s, Len(s)) \in WhiteSpace
    THEN TrimEnd(SubSeq(s, 1, Len(s) - 1)) ELSE s

\* String.prototype.trim
Trim(s) == TrimEnd(TrimStart(s))

\* textContent.replace(/\r\n/g,'\n').replace(/\n{3,}/g,'\n\n').trim()
Normalize(t) == Trim(CollapseLF(ReplaceCRLF(t)))

-----------------------------------------------------------------------------
(* Filename from content-disposition: tools.ts 642-644                     *)

ExtMarker == "filename*=utf-8''"
PlainMarker == "filename="

\* JavaScript truthiness of an optional string: undefined and '' are falsy
Truthy(v) == IsDefined(v) /\ Val(v) # ""

\* disposition?.split('filename*=utf-8\'\'')[1] ||
\* disposition?.split('filename=')[1]?.replace(/"/g, '')
ParseFilename(disp) ==
    IF ~IsDefined(disp) THEN Undefined
    ELSE LET ext   == At(Split(Val(disp), ExtMarker), 1)
             plain == At(Split(Val(disp), PlainMarker), 1)
             unq   == IF IsDefined(plain) THEN Some(RemoveChar(Val(plain), "\""))
                      ELSE Undefined
         IN  IF Truthy(ext) THEN ext ELSE unq

\* The header values drawn: a header is a list of parameters joined by "; ".
\* kind "ext" is filename*=utf-8''<value>, "quoted" is filename="<value>",
\* "other" is any other token (the disposition type, another parameter).
ExtValues == {"report%20final.pdf", "a.pdf"}
QuotedValues == {"b.pdf", "c d.pdf"}
OtherTokens == {"attachment", "size=7"}

Params ==
    {[kind |-> "ext", value |-> v] : v \in ExtValues}
    \cup {[kind |-> "quoted", value |-> v] : v \in QuotedValues}
    \cup {[kind |-> "other", value |-> v] : v \in OtherTokens}

RenderParam(p) ==
    CASE p.kind = "ext"    -> ExtMarker \o p.value
      [] p.kind = "quoted" -> PlainMarker \o "\"" \o p.value \o "\""
      [] OTHER             -> p.value

RECURSIVE RenderAll(_)
RenderAll(ps) == IF ps = << >> THEN << >> ELSE <<RenderParam(Head(ps))>> \o RenderAll(Tail(ps))

\* the content-disposition header of a response (optional)
Header(absent, ps) == IF absent THEN Undefined ELSE Some(Join(RenderAll(ps), "; "))

HeaderInputs == SeqsUpTo(Params, MaxParams)

\* the texts a decoder may return
TextAlphabet == {"a", "\r", "\n", " "}
ExampleText == "Title\r\n\r\n\r\n\r\nBody\r\n"
Texts == Strings(TextAlphabet, MaxTextLen) \cup {ExampleText}


-----------------------------------------------------------------------------
(* Errors and handler outcomes                                             *)

NoError == [cls |-> "none", code |-> "", message |-> ""]

\* new McpError(ErrorCode.<code>, message)
McpError(code, message) == [cls |-> "McpError", code |-> code, message |-> message]

\* axios.isAxiosError(error)
isAxiosError(e) == e.cls = "AxiosError"

\* what axios rejects with: a transport failure, or a response whose status is
\* outside 2xx (the default validateStatus)
AxiosErrors ==
    {[cls |-> "AxiosError", code |-> "ECONNRESET", message |-> "socket hang up"],
     [cls |-> "AxiosError", code |-> "ERR_BAD_REQUEST",
      message |-> "Request failed with status code 404"]}

\* what a response stream may emit as 'error'
StreamErrors ==
    {[cls |-> "Error", code |-> "", message |-> "aborted"],
     [cls |-> "AxiosError", code |-> "ERR_BAD_RESPONSE",
      message |-> "stream has been aborted"]}

\* what pdf-parse or mammoth reject with on a corrupt document
DecoderErrors == {[cls |-> "Error", code |-> "", message |-> "Invalid PDF structure"]}

\* contentType.includes(...) on an undefined contentType
TypeErrorIncludes ==
    [cls |-> "TypeError", code |-> "",
     message |-> "Cannot read properties of undefined (reading 'includes')"]

NoMetadata == [filename |-> Undefined, contentType |-> Undefined, source |-> ""]

NoOutcome ==
    [kind |-> "none", isError |-> FALSE, text |-> "", metadata |-> NoMetadata,
     error |-> NoError]

\* return { content: [{ type: "text", text, metadata }] }
Returned(text, metadata) ==
    [kind |-> "returned", isError |-> FALSE, text |-> text, metadata |-> metadata,
     error |-> NoError]

\* return { content: [{ type: "text", text }], isError: true }
ReturnedError(text) ==
    [kind |-> "returned", isError |-> TRUE, text |-> text, metadata |-> NoMetadata,
     error |-> NoError]

\* the handler's promise rejects with e
Thrown(e) ==
    [kind |-> "thrown", isError |-> FALSE, text |-> "", metadata |-> NoMetadata,
     error |-> e]

\* the catch of the try around the fetch: tools.ts 681-689
InnerCatch(e) ==
    IF isAxiosError(e)
    THEN McpError("InternalError", "Failed to fetch document: " \o e.message)
    ELSE e

\* a faulty variant: every error becomes an isError result
OuterCatchSwallow(e) == ReturnedError("MTender API error: " \o e.message)

\* the catch of the try around the switch: tools.ts 693-704
OuterCatch(e) ==
    IF isAxiosError(e)
    THEN ReturnedError("MTender API error: " \o e.message)
    ELSE Thrown(e)

-----------------------------------------------------------------------------
(* URL validation: tools.ts 625-630, and the declared pattern, tools.ts 139 *)

StoragePrefix == "https://storage.mtender.gov.md/get/"

Digits == {"0", "1", "2", "3", "4", "5", "6", "7", "8", "9"}
Letters ==
    {"a", "b", "c", "d", "e", "f", "g", "h", "i", "j", "k", "l", "m", "n", "o",
     "p", "q", "r", "s", "t", "u", "v", "w", "x", "y", "z",
     "A", "B", "C", "D", "E", "F", "G", "H", "I", "J", "K", "L", "M", "N", "O",
     "P", "Q", "R", "S", "T", "U", "V", "W", "X", "Y", "Z"}
\* the class \w
WordChars == Letters \cup Digits \cup {"_"}

\* /^https:\/\/storage\.mtender\.gov\.md\/get\/[\w-]+-\d+$/.test(s): the pattern
\* the tool declares for documentUrl in its inputSchema
MatchesDeclaredPattern(s) ==
    /\ StartsWith(s, StoragePrefix)
    /\ LET rest == Drop(s, Len(StoragePrefix))
           n    == Len(rest)
       IN  \E k \in 1..(n - 2) :
              /\ \A i \in 1..k : CharAt(rest, i) \in WordChars \cup {"-"}
              /\ CharAt(rest, k + 1) = "-"
              /\ \A i \in (k + 2)..n : CharAt(rest, i) \in Digits

\* the check the handler makes: documentUrl.startsWith(prefix)
UrlAccepted(url) == StartsWith(url, StoragePrefix)

\* the documentUrl arguments drawn: absent, some fixed strings, and the storage
\* prefix followed by every tail over TailAlphabet of length at most MaxTail
TailAlphabet == {"7", "-"}
UrlArguments ==
    {Undefined,
     Some(""),
     Some("http://storage.mtender.gov.md/get/ab-12"),
     Some("https://evil.example/get/ab-12"),
     Some("https://storage.mtender.gov.md.evil.example/get/ab-12"),
     Some(StoragePrefix \o "8e03c261-6f62-1682585742785"),
     Some(StoragePrefix \o "ab-12?x=1"),
     Some(StoragePrefix \o "ab-12/../../x"),
     Some(StoragePrefix \o "ab-cd")}
    \cup {Some(StoragePrefix \o t) : t \in Strings(TailAlphabet, MaxTail)}

\* the content-type headers drawn (absent, the three supported, unsupported ones)
ContentTypes ==
    {Undefined,
     Some("application/pdf"),
     Some("application/msword"),
     Some("application/vnd.openxmlformats-officedocument.wordprocessingml.document"),
     Some("application/pdf; charset=binary"),
     Some("text/plain")}

\* the content-disposition headers drawn in the handler
Dispositions ==
    {Undefined, Some("attachment; filename*=utf-8''a.pdf; filename=\"b.pdf\"")}

\* the texts the decoders return in the handler
DecodedTexts == {"", ExampleText, "a\r\r\nb", " a\n\n\n\nb\n"}

\* the chunks a stream delivers
ChunkValues == {"x", "y"}


-----------------------------------------------------------------------------
(* streamToBuffer: utils.ts 3-10                                           *)

PendingPromise == [state |-> "pending", buffer |-> "", error |-> NoError]

\* resolve(value): settles the promise unless it is settled already
Resolve(p, buf) ==
    IF p.state = "pending"
    THEN [state |-> "resolved", buffer |-> buf, error |-> NoError]
    ELSE p

\* reject(reason): settles the promise unless it is settled already
Reject(p, e) ==
    IF p.state = "pending"
    THEN [state |-> "rejected", buffer |-> "", error |-> e]
    ELSE p

\* Buffer.concat(chunks)
BufferConcat(cs) == Join(cs, "")

DataEvent(c) == [type |-> "data", chunk |-> c, error |-> NoError]
ErrorEvent(e) == [type |-> "error", chunk |-> "", error |-> e]
EndEvent == [type |-> "end", chunk |-> "", error |-> NoError]

CanEmit == listening /\ Len(emitted) < MaxEvents

\* a faulty variant: the 'data' listener keeps only the latest chunk
OnDataKeepLast(cs, c) == <<c>>

\* stream.on('data', chunk => chunks.push(chunk))
OnData(cs, c) == Append(cs, c)

\* a faulty variant: no 'error' listener is registered
OnErrorIgnored(p, e) == p

\* stream.on('error', reject)
OnError(p, e) == Reject(p, e)

\* stream.on('end', () => resolve(Buffer.concat(chunks)))
OnEnd(p, cs) == Resolve(p, BufferConcat(cs))

EmitData(c) ==
    /\ CanEmit
    /\ chunks' = OnData(chunks, c)
    /\ emitted' = Append(emitted, DataEvent(c))
    /\ UNCHANGED <<listening, promise>>

EmitError(e) ==
    /\ CanEmit
    /\ promise' = OnError(promise, e)
    /\ emitted' = Append(emitted, ErrorEvent(e))
    /\ UNCHANGED <<listening, chunks>>

EmitEnd ==
    /\ CanEmit
    /\ promise' = OnEnd(promise, chunks)
    /\ emitted' = Append(emitted, EndEvent)
    /\ UNCHANGED <<listening, chunks>>

StreamData ==
    (\E c \in ChunkValues : EmitData(c)) /\ UNCHANGED <<handlerVars, normVars, nameVars, concVars, resVars, searchVars, toolVars, wrapVars, monVars, logVars>>
StreamError ==
    (\E e \in StreamErrors : EmitError(e)) /\ UNCHANGED <<handlerVars, normVars, nameVars, concVars, resVars, searchVars, toolVars, wrapVars, monVars, logVars>>
StreamEnd == EmitEnd /\ UNCHANGED <<handlerVars, normVars, nameVars, concVars, resVars, searchVars, toolVars, wrapVars, monVars, logVars>>

-----------------------------------------------------------------------------
(* The wrapped CallTool handler, case "fetch_tender_document":             *)
(* utils.ts 22-93 around tools.ts 156-158, 624-704                         *)

\* the wrapper's exit: activeRequestsCount-- and the handler's outcome passed on
Leave(o) ==
    /\ outcome' = o
    /\ activeRequestsCount' = activeRequestsCount - 1
    /\ pc' = "done"

\* entry to the first await: the wrapper counts the request, the handler
\* validates the URL and calls axios
CallToolFetch(arg) ==
    /\ pc = "idle"
    /\ documentUrl' = JSString(arg)
    /\ IF UrlAccepted(documentUrl')
       THEN /\ httpRequests' = httpRequests + 1
            /\ storeSilent' \in BOOLEAN
            /\ activeRequestsCount' = activeRequestsCount + 1
            /\ pc' = "awaitAxios"
            /\ UNCHANGED outcome
       ELSE /\ outcome' = OuterCatch(McpError("InvalidParams", "Invalid MTender storage URL"))
            /\ pc' = "done"
            /\ UNCHANGED <<httpRequests, storeSilent, activeRequestsCount>>
    /\ UNCHANGED <<contentType, disposition, filename, strategy, decodersRun>>
    /\ UNCHANGED <<streamVars, normVars, nameVars, concVars, resVars, searchVars, toolVars, wrapVars, monVars, logVars>>

\* a faulty variant: the PDF test is a substring test
DispatchPdfBySubstring(ct) ==
    IF ~IsDefined(ct) THEN "crash"
    ELSE IF Includes(Val(ct), "pdf") THEN "pdf"
    ELSE IF Includes(Val(ct), "msword")
            \/ Includes(Val(ct), "openxmlformats-officedocument") THEN "word"
    ELSE "unsupported"

\* the branch of the if / else-if / else on contentType: tools.ts 648-662
Dispatch(ct) ==
    IF ct = Some("application/pdf") THEN "pdf"
    ELSE IF ~IsDefined(ct) THEN "crash"
    ELSE IF Includes(Val(ct), "msword")
            \/ Includes(Val(ct), "openxmlformats-officedocument") THEN "word"
    ELSE "unsupported"

\* a faulty variant: the body is collected before the content type is looked at
AxiosResolveCollectFirst(ct, disp) ==
    /\ pc = "awaitAxios"
    /\ ~storeSilent
    /\ contentType' = ct
    /\ disposition' = disp
    /\ filename' = ParseFilename(disp)
    /\ strategy' = Dispatch(ct)
    /\ listening' = TRUE
    /\ chunks' = << >>
    /\ promise' = PendingPromise
    /\ UNCHANGED emitted
    /\ CASE strategy' \in {"pdf", "word"} ->
              pc' = "awaitStream" /\ UNCHANGED <<outcome, activeRequestsCount>>
         [] strategy' = "crash" ->
              Leave(OuterCatch(InnerCatch(TypeErrorIncludes)))
         [] OTHER ->
              Leave(OuterCatch(InnerCatch(
                    McpError("InvalidRequest", "Unsupported document type: " \o Val(ct)))))
    /\ UNCHANGED <<documentUrl, storeSilent, httpRequests, decodersRun, normVars, nameVars, concVars, resVars, searchVars, toolVars, wrapVars, monVars, logVars>>

\* axios resolves with the response: headers are read, the content type is
\* dispatched on, and a supported type reaches the await of streamToBuffer
AxiosResolve(ct, disp) ==
    /\ pc = "awaitAxios"
    /\ ~storeSilent
    /\ contentType' = ct
    /\ disposition' = disp
    /\ filename' = ParseFilename(disp)
    /\ strategy' = Dispatch(ct)
    /\ CASE strategy' \in {"pdf", "word"} ->
              /\ listening' = TRUE
              /\ chunks' = << >>
              /\ promise' = PendingPromise
              /\ pc' = "awaitStream"
              /\ UNCHANGED <<outcome, activeRequestsCount, emitted>>
         [] strategy' = "crash" ->
              /\ Leave(OuterCatch(InnerCatch(TypeErrorIncludes)))
              /\ UNCHANGED streamVars
         [] OTHER ->
              /\ Leave(OuterCatch(InnerCatch(
                    McpError("InvalidRequest", "Unsupported document type: " \o Val(ct)))))
              /\ UNCHANGED streamVars
    /\ UNCHANGED <<documentUrl, storeSilent, httpRequests, decodersRun, normVars, nameVars, concVars, resVars, searchVars, toolVars, wrapVars, monVars, logVars>>

\* the time limit of the request in milliseconds: the call of tools.ts 634-638
\* passes no timeout, so it is the default of axios, 0, which is no limit
RequestTimeoutMs == 0

\* what axios rejects with when the time limit of a request passes
TimeoutErrors(ms) ==
    IF ms > 0
    THEN {[cls |-> "AxiosError", code |-> "ECONNABORTED", message |-> "timeout exceeded"]}
    ELSE {}

\* a faulty variant: a failed request is issued again, twice at most
AxiosRejectRetry(e) ==
    /\ pc = "awaitAxios"
    /\ ~storeSilent
    /\ IF httpRequests < 3
       THEN /\ httpRequests' = httpRequests + 1
            /\ UNCHANGED <<pc, outcome, activeRequestsCount>>
       ELSE /\ Leave(OuterCatch(InnerCatch(e)))
            /\ UNCHANGED httpRequests
    /\ UNCHANGED <<documentUrl, storeSilent, contentType, disposition, filename,
                   strategy, decodersRun, streamVars, normVars, nameVars, concVars, resVars, searchVars, toolVars, wrapVars, monVars, logVars>>

\* axios rejects: a connection failure or a status outside 2xx when the store
\* answers, the time limit when there is one
AxiosReject(e) ==
    /\ pc = "awaitAxios"
    /\ e \in TimeoutErrors(RequestTimeoutMs) \/ ~storeSilent
    /\ Leave(OuterCatch(InnerCatch(e)))
    /\ UNCHANGED <<documentUrl, storeSilent, httpRequests, contentType, disposition, filename,
                   strategy, decodersRun, streamVars, normVars, nameVars, concVars, resVars, searchVars, toolVars, wrapVars, monVars, logVars>>

\* the await of streamToBuffer resumes once the promise has settled: with the
\* buffer the decoder of the branch is called, with an error the catches run
StreamResume ==
    /\ pc = "awaitStream"
    /\ promise.state # "pending"
    /\ IF promise.state = "resolved"
       THEN /\ decodersRun' = Append(decodersRun, strategy)
            /\ pc' = "awaitDecode"
            /\ UNCHANGED <<outcome, activeRequestsCount>>
       ELSE /\ Leave(OuterCatch(InnerCatch(promise.error)))
            /\ UNCHANGED decodersRun
    /\ UNCHANGED <<documentUrl, storeSilent, httpRequests, contentType, disposition, filename,
                   strategy, streamVars, normVars, nameVars, concVars, resVars, searchVars, toolVars, wrapVars, monVars, logVars>>

\* the decoder resolves with the text: it is normalized and returned
DecodeResolve(text) ==
    /\ pc = "awaitDecode"
    /\ Leave(Returned(Normalize(text),
                      [filename |-> filename, contentType |-> contentType,
                       source |-> documentUrl]))
    /\ UNCHANGED <<documentUrl, storeSilent, httpRequests, contentType, disposition, filename,
                   strategy, decodersRun, streamVars, normVars, nameVars, concVars, resVars, searchVars, toolVars, wrapVars, monVars, logVars>>

\* the decoder rejects
DecodeReject(e) ==
    /\ pc = "awaitDecode"
    /\ Leave(OuterCatch(InnerCatch(e)))
    /\ UNCHANGED <<documentUrl, storeSilent, httpRequests, contentType, disposition, filename,
                   strategy, decodersRun, streamVars, normVars, nameVars, concVars, resVars, searchVars, toolVars, wrapVars, monVars, logVars>>

Request == \E arg \in UrlArguments : CallToolFetch(arg)
Response == \E ct \in ContentTypes, disp \in Dispositions : AxiosResolve(ct, disp)
RequestFailed ==
    \E e \in AxiosErrors \cup TimeoutErrors(RequestTimeoutMs) : AxiosReject(e)
Decoded == \E text \in DecodedTexts : DecodeResolve(text)
DecodeFailed == \E e \in DecoderErrors : DecodeReject(e)

-----------------------------------------------------------------------------
(* The pure functions applied to drawn inputs                              *)

NormalizeText ==
    /\ cleanedText = Undefined
    /\ cleanedText' = Some(Normalize(rawText))
    /\ UNCHANGED <<rawText, handlerVars, streamVars, nameVars, concVars, resVars, searchVars, toolVars, wrapVars, monVars, logVars>>

ParseName ==
    /\ parsedName = << >>
    /\ parsedName' = <<ParseFilename(Header(headerAbsent, headerParams))>>
    /\ UNCHANGED <<headerParams, headerAbsent, handlerVars, streamVars, normVars, concVars, resVars, searchVars, toolVars, wrapVars, monVars, logVars>>

-----------------------------------------------------------------------------
(* Several invocations of fetch_tender_document in flight: every CallTool
   request runs the same async handler, and the event loop interleaves the
   invocations at their awaits (axios, streamToBuffer, the decoder)         *)

NumInv == 2
Invocations == 1..NumInv

\* the number of 'data' events a stream emits here
MaxConcChunks == 1

ConcUrls ==
    {StoragePrefix \o "ab-12", StoragePrefix \o "cd-34", "https://evil.example/get/ab-12"}

\* the headers of the responses the store gives here
ConcResponses ==
    {[contentType |-> Some("application/pdf"),
      disposition |-> Some("attachment; filename=\"a.pdf\"")],
     [contentType |-> Some("text/plain"), disposition |-> Undefined]}

\* axios errors without a response, and with a response of status 4xx/5xx
TransportErrors == {e \in AxiosErrors : e.code = "ECONNRESET"}
HttpErrors == {e \in AxiosErrors : e.code = "ERR_BAD_REQUEST"}

\* the decoders are functions of the buffer: pdfParse(buffer) and
\* mammoth.extractRawText({buffer}) reject on a buffer that is no document and
\* resolve with the document's text otherwise
DecoderResult(buffer) ==
    IF buffer = ""
    THEN [ok |-> FALSE, text |-> "",
          error |-> [cls |-> "Error", code |-> "", message |-> "Invalid PDF structure"]]
    ELSE [ok |-> TRUE, text |-> " " \o buffer \o "\r\n\n\n\n" \o buffer \o "\r\n",
          error |-> NoError]

\* an invocation that has not been made yet
IdleCall ==
    [pc |-> "idle", documentUrl |-> "", failure |-> NoError,
     contentType |-> Undefined, disposition |-> Undefined, filename |-> Undefined,
     strategy |-> "none", emitted |-> << >>, promise |-> PendingPromise,
     outcome |-> NoOutcome]

\* a faulty variant: chunks is one array of the module, shared by all calls
SharedChunkStore(i) == 1

\* const chunks: Buffer[] = [] is local to a call of streamToBuffer: the call
\* of invocation i has the array i
ChunkStore(i) == i

\* the variables of the single invocation, which stay idle here
singleVars ==
    <<pc, documentUrl, storeSilent, httpRequests, contentType, disposition, filename,
      strategy, decodersRun, outcome, streamVars, normVars, nameVars>>

\* the wrapper counts the request, the handler validates the URL and calls axios
ConcCall(i, url) ==
    /\ calls[i].pc = "idle"
    /\ IF UrlAccepted(url)
       THEN /\ calls' = [calls EXCEPT ![i].pc = "awaitAxios", ![i].documentUrl = url]
            /\ activeRequestsCount' = activeRequestsCount + 1
       ELSE /\ calls' = [calls EXCEPT
                  ![i].pc = "done", ![i].documentUrl = url,
                  ![i].outcome = OuterCatch(McpError("InvalidParams",
                                                     "Invalid MTender storage URL"))]
            /\ UNCHANGED activeRequestsCount
    /\ UNCHANGED <<chunkStores, singleVars, resVars, searchVars, toolVars, wrapVars, monVars, logVars>>

\* axios rejects
ConcAxiosReject(i, e) ==
    /\ calls[i].pc = "awaitAxios"
    /\ calls' = [calls EXCEPT ![i].pc = "done", ![i].failure = e,
                              ![i].outcome = OuterCatch(InnerCatch(e))]
    /\ activeRequestsCount' = activeRequestsCount - 1
    /\ UNCHANGED <<chunkStores, singleVars, resVars, searchVars, toolVars, wrapVars, monVars, logVars>>

\* axios resolves: the headers are read, the content type is dispatched on, and
\* a supported type reaches streamToBuffer, which allocates chunks
ConcAxiosResolve(i, r) ==
    /\ calls[i].pc = "awaitAxios"
    /\ LET s == Dispatch(r.contentType)
           c == [calls[i] EXCEPT !.contentType = r.contentType,
                                 !.disposition = r.disposition,
                                 !.filename = ParseFilename(r.disposition),
                                 !.strategy = s]
       IN  CASE s \in {"pdf", "word"} ->
                  /\ calls' = [calls EXCEPT ![i] = [c EXCEPT !.pc = "awaitStream"]]
                  /\ chunkStores' = [chunkStores EXCEPT ![ChunkStore(i)] = << >>]
                  /\ UNCHANGED activeRequestsCount
             [] s = "crash" ->
                  /\ calls' = [calls EXCEPT ![i] =
                        [c EXCEPT !.pc = "done",
                                  !.outcome = OuterCatch(InnerCatch(TypeErrorIncludes))]]
                  /\ activeRequestsCount' = activeRequestsCount - 1
                  /\ UNCHANGED chunkStores
             [] OTHER ->
                  /\ calls' = [calls EXCEPT ![i] =
                        [c EXCEPT !.pc = "done",
                                  !.outcome = OuterCatch(InnerCatch(
                                      McpError("InvalidRequest",
                                               "Unsupported document type: "
                                                   \o Val(r.contentType))))]]
                  /\ activeRequestsCount' = activeRequestsCount - 1
                  /\ UNCHANGED chunkStores
    /\ UNCHANGED <<singleVars, resVars, searchVars, toolVars, wrapVars, monVars, logVars>>

\* the stream of invocation i emits 'data'
ConcData(i, c) ==
    /\ calls[i].pc = "awaitStream"
    /\ Len(calls[i].emitted) < MaxConcChunks
    /\ calls' = [calls EXCEPT ![i].emitted = Append(@, DataEvent(c))]
    /\ chunkStores' = [chunkStores EXCEPT ![ChunkStore(i)] = OnData(@, c)]
    /\ UNCHANGED <<activeRequestsCount, singleVars, resVars, searchVars, toolVars, wrapVars, monVars, logVars>>

\* the stream of invocation i emits 'error': the promise rejects, the await
\* throws and the catches run
ConcStreamError(i, e) ==
    /\ calls[i].pc = "awaitStream"
    /\ LET p == OnError(calls[i].promise, e)
       IN  calls' = [calls EXCEPT ![i].emitted = Append(@, ErrorEvent(e)),
                                  ![i].promise = p,
                                  ![i].pc = "done",
                                  ![i].outcome = OuterCatch(InnerCatch(p.error))]
    /\ activeRequestsCount' = activeRequestsCount - 1
    /\ UNCHANGED <<chunkStores, singleVars, resVars, searchVars, toolVars, wrapVars, monVars, logVars>>

\* the stream of invocation i emits 'end': the promise resolves with the
\* concatenated chunks and the handler calls the decoder
ConcEnd(i) ==
    /\ calls[i].pc = "awaitStream"
    /\ calls' = [calls EXCEPT ![i].emitted = Append(@, EndEvent),
                              ![i].promise = OnEnd(@, chunkStores[ChunkStore(i)]),
                              ![i].pc = "awaitDecode"]
    /\ UNCHANGED <<activeRequestsCount, chunkStores, singleVars, resVars, searchVars, toolVars, wrapVars, monVars, logVars>>

\* the decoder of invocation i settles: the text is normalized and returned, or
\* the error goes through the catches
ConcDecode(i) ==
    /\ calls[i].pc = "awaitDecode"
    /\ LET r == DecoderResult(calls[i].promise.buffer)
           o == IF r.ok
                THEN Returned(Normalize(r.text),
                              [filename |-> calls[i].filename,
                               contentType |-> calls[i].contentType,
                               source |-> calls[i].documentUrl])
                ELSE OuterCatch(InnerCatch(r.error))
       IN  calls' = [calls EXCEPT ![i].pc = "done", ![i].outcome = o]
    /\ activeRequestsCount' = activeRequestsCount - 1
    /\ UNCHANGED <<chunkStores, singleVars, resVars, searchVars, toolVars, wrapVars, monVars, logVars>>

ConcRequest == \E i \in Invocations, url \in ConcUrls : ConcCall(i, url)
ConcRequestFailed == \E i \in Invocations, e \in AxiosErrors : ConcAxiosReject(i, e)
ConcResponse == \E i \in Invocations, r \in ConcResponses : ConcAxiosResolve(i, r)
ConcStreamData == \E i \in Invocations, c \in ChunkValues : ConcData(i, c)
ConcStreamFailed == \E i \in Invocations : ConcStreamError(i, CHOOSE e \in StreamErrors : e.cls = "Error")
ConcStreamEnd == \E i \in Invocations : ConcEnd(i)
ConcDecoded == \E i \in Invocations : ConcDecode(i)

-----------------------------------------------------------------------------
(* ReadResource handler: resources module, lines 69-161                    *)

MTENDER_API_BASE_URL == "https://public.mtender.gov.md"

SpecialSchemes == {"http", "https", "ftp", "ws", "wss", "file"}
SchemeChars == Letters \cup Digits \cup {"+", "-", "."}

InvalidUrl == [ok |-> FALSE, protocol |-> "", host |-> "", pathname |-> ""]

RECURSIVE DropSlashes(_)
DropSlashes(s) == IF StartsWith(s, "/") THEN DropSlashes(Drop(s, 1)) ELSE s

\* new URL(uri) without a base, for a lower-case uri that has no whitespace,
\* no '@', '%', '\' or '[', no port and no dot segment: the scheme runs up to
\* the first ':', fragment and query are cut off, and what is left is
\*   - after "//": a host up to the next '/', then the path;
\*   - for a scheme that is not special, without "//": the path itself;
\*   - for a special scheme the slashes are skipped, a host is required and an
\*     empty path is "/".
ParseURL(uri) ==
    LET colons == Occurrences(uri, ":")
    IN  IF \/ colons = {}
           \/ Min(colons) = 1
           \/ CharAt(uri, 1) \notin Letters
           \/ \E i \in 2..(Min(colons) - 1) : CharAt(uri, i) \notin SchemeChars
        THEN InvalidUrl
        ELSE LET k      == Min(colons)
                 scheme == SubSeq(uri, 1, k - 1)
                 rest   == Split(Split(Drop(uri, k), "#")[1], "?")[1]
                 auth   == IF scheme \in SpecialSchemes THEN DropSlashes(rest)
                           ELSE Drop(rest, 2)
                 host   == Split(auth, "/")[1]
                 path   == Drop(auth, Len(host))
             IN  IF scheme \in SpecialSchemes
                 THEN IF host = "" THEN InvalidUrl
                      ELSE [ok |-> TRUE, protocol |-> scheme \o ":", host |-> host,
                            pathname |-> IF path = "" THEN "/" ELSE path]
                 ELSE IF StartsWith(rest, "//")
                 THEN [ok |-> TRUE, protocol |-> scheme \o ":", host |-> host,
                       pathname |-> path]
                 ELSE [ok |-> TRUE, protocol |-> scheme \o ":", host |-> "",
                       pathname |-> rest]

\* what new URL throws on a string that is no URL
TypeErrorInvalidUrl == [cls |-> "TypeError", code |-> "ERR_INVALID_URL", message |-> "Invalid URL"]

\* arr.filter(Boolean) on an array of strings
NonEmpty(s) == s # ""
PathParts(pathname) == SelectSeq(Split(pathname, "/"), NonEmpty)

\* `${parts.slice(0, -1).join('-')}-FS-${parts[parts.length - 1]}`
FundingSourceId(ocid) ==
    LET parts == Split(ocid, "-")
    IN  Join(SubSeq(parts, 1, Len(parts) - 1), "-") \o "-FS-" \o parts[Len(parts)]

\* the branch of the if / else-if chain on uri and pathParts, and the URL of
\* the GET it issues
ResourceBranch(uri, pathParts) ==
    LET kind == At(pathParts, 0)
        ocid == At(pathParts, 1)
    IN  IF uri = "mtender://latest-tenders"
        THEN [branch |-> "latest", get |-> Some(MTENDER_API_BASE_URL \o "/tenders/")]
        ELSE IF kind = Some("tender") /\ Truthy(ocid)
        THEN [branch |-> "tender",
              get |-> Some(MTENDER_API_BASE_URL \o "/tenders/" \o Val(ocid))]
        ELSE IF kind = Some("budget") /\ Truthy(ocid)
        THEN [branch |-> "budget",
              get |-> Some(MTENDER_API_BASE_URL \o "/budgets/" \o Val(ocid) \o "/" \o Val(ocid))]
        ELSE IF kind = Some("funding") /\ Truthy(ocid)
        THEN [branch |-> "funding",
              get |-> Some(MTENDER_API_BASE_URL \o "/budgets/" \o Val(ocid) \o "/"
                               \o FundingSourceId(Val(ocid)))]
        ELSE [branch |-> "invalid", get |-> Undefined]

\* JSON documents the API answers with: records is absent or an array of
\* records, each with an optional compiledRelease whose tender has a title
Release(title) == [compiledRelease |-> Some([tender |-> [title |-> title]])]
UpstreamDocs ==
    {[records |-> Undefined],
     [records |-> Some(<< >>)],
     [records |-> Some(<<[compiledRelease |-> Undefined]>>)],
     [records |-> Some(<<Release("Road repair")>>)],
     [records |-> Some(<<Release("")>>)]}

\* JSON.stringify(data, null, 2): the text that denotes data, indented by 2
JSONStringify(data) == [json |-> data, indent |-> 2]

TypeErrorCompiledRelease ==
    [cls |-> "TypeError", code |-> "",
     message |-> "Cannot read properties of undefined (reading 'compiledRelease')"]

\* the title of the tender branch:
\*   let title = "Tender Details";
\*   if (data.records && data.records[0].compiledRelease)
\*     title = data.records[0].compiledRelease.tender.title || title;
TenderTitle(data) ==
    IF ~IsDefined(data.records) THEN [ok |-> TRUE, title |-> "Tender Details"]
    ELSE IF Val(data.records) = << >> THEN [ok |-> FALSE, title |-> ""]
    ELSE LET cr == Val(data.records)[1].compiledRelease
         IN  IF IsDefined(cr) /\ Val(cr).tender.title # ""
             THEN [ok |-> TRUE, title |-> Val(cr).tender.title]
             ELSE [ok |-> TRUE, title |-> "Tender Details"]

NoContents == [uri |-> "", mimeType |-> "", text |-> JSONStringify(Undefined), name |-> Undefined]
NoResourceOutcome == [kind |-> "none", contents |-> NoContents, error |-> NoError]

\* return { contents: [{ uri, mimeType: "application/json", text, name? }] }
ReturnedContents(uri, data, name) ==
    [kind |-> "returned",
     contents |-> [uri |-> uri, mimeType |-> "application/json",
                   text |-> JSONStringify(data), name |-> name],
     error |-> NoError]

ThrownFromResource(e) == [kind |-> "thrown", contents |-> NoContents, error |-> e]

\* the catch of the handler: an axios error becomes an McpError
ResourceCatch(e) ==
    IF isAxiosError(e)
    THEN McpError("InternalError", "MTender API error: " \o e.message)
    ELSE e

\* the resources of every form: scheme part, resource name, rest of the path
Ocids == {"ocds-b3wdp1-MD-1", "a"}
UriSchemeParts == {"mtender://", "mtender:/", "mtender:", "https://", ""}
UriNames == {"tender", "budget", "funding", "latest-tenders", "notice"}
UriTails == {"", "/"} \cup {"/" \o o : o \in Ocids}
ResourceUris == {sp \o n \o t : sp \in UriSchemeParts, n \in UriNames, t \in UriTails}

\* the other variables stay as they are
notResVars == <<singleVars, concVars, searchVars, toolVars, wrapVars, monVars, logVars>>

\* entry to the first await: the wrapper counts the request, the handler parses
\* the URI, picks the branch and calls axios.get, or throws
ReadResource(uri) ==
    /\ resPc = "idle"
    /\ resUri' = uri
    /\ LET url == ParseURL(uri)
           b   == ResourceBranch(uri, PathParts(url.pathname))
       IN  CASE ~url.ok ->
                  /\ resOutcome' = ThrownFromResource(ResourceCatch(TypeErrorInvalidUrl))
                  /\ resPc' = "done"
                  /\ UNCHANGED <<resBranch, resRequest, activeRequestsCount>>
             [] url.ok /\ url.protocol # "mtender:" ->
                  /\ resOutcome' = ThrownFromResource(ResourceCatch(
                        McpError("InvalidRequest", "Unsupported protocol: " \o url.protocol)))
                  /\ resPc' = "done"
                  /\ UNCHANGED <<resBranch, resRequest, activeRequestsCount>>
             [] url.ok /\ url.protocol = "mtender:" /\ b.branch = "invalid" ->
                  /\ resBranch' = b.branch
                  /\ resOutcome' = ThrownFromResource(ResourceCatch(
                        McpError("InvalidRequest", "Invalid resource URI: " \o uri)))
                  /\ resPc' = "done"
                  /\ UNCHANGED <<resRequest, activeRequestsCount>>
             [] OTHER ->
                  /\ resBranch' = b.branch
                  /\ resRequest' = b.get
                  /\ activeRequestsCount' = activeRequestsCount + 1
                  /\ resPc' = "awaitAxios"
                  /\ UNCHANGED resOutcome
    /\ UNCHANGED <<resResponse, notResVars>>

\* axios.get resolves with the API's document
ResourceResolve(data) ==
    /\ resPc = "awaitAxios"
    /\ resResponse' = Some(data)
    /\ resOutcome' =
          IF resBranch = "tender"
          THEN IF TenderTitle(data).ok
               THEN ReturnedContents(resUri, data, Some(TenderTitle(data).title))
               ELSE ThrownFromResource(ResourceCatch(TypeErrorCompiledRelease))
          ELSE ReturnedContents(resUri, data, Undefined)
    /\ activeRequestsCount' = activeRequestsCount - 1
    /\ resPc' = "done"
    /\ UNCHANGED <<resUri, resBranch, resRequest, notResVars>>

\* axios.get rejects
ResourceReject(e) ==
    /\ resPc = "awaitAxios"
    /\ resOutcome' = ThrownFromResource(ResourceCatch(e))
    /\ activeRequestsCount' = activeRequestsCount - 1
    /\ resPc' = "done"
    /\ UNCHANGED <<resUri, resBranch, resRequest, resResponse, notResVars>>

ResourceRequest == \E uri \in ResourceUris : ReadResource(uri)
ResourceResponse == \E data \in UpstreamDocs : ResourceResolve(data)
ResourceFailed == \E e \in AxiosErrors : ResourceReject(e)

-----------------------------------------------------------------------------
(* search_tenders: tools.ts 159-215                                        *)

\* most items in a drawn upstream list
MaxItems == 2

\* the limit used when the argument gives none: tools.ts 161
DefaultLimit == 100

\* Number(args?.limit) || 100 for an absent or integer argument: undefined
\* gives NaN, and NaN and 0 are falsy
EffectiveLimit(limitArg) ==
    IF IsDefined(limitArg) /\ Val(limitArg) # 0 THEN Val(limitArg) ELSE DefaultLimit

\* the date strings known here, in the order of their instants
IsoInstants == <<"2024-01-01", "2024-01-01T12:00:00Z", "2024-01-02">>

\* new Date(s).getTime() for a string or undefined: the rank of the instant,
\* or undefined for NaN (Invalid Date)
NewDate(s) ==
    IF IsDefined(s) /\ \E i \in DOMAIN IsoInstants : IsoInstants[i] = Val(s)
    THEN Some(CHOOSE i \in DOMAIN IsoInstants : IsoInstants[i] = Val(s))
    ELSE Undefined

\* a > b on two dates: false when either is NaN
DateGreater(a, b) == IsDefined(a) /\ IsDefined(b) /\ Val(a) > Val(b)

\* the callback of filteredData.filter
KeepsItem(item, dateFrom, dateTo) ==
    LET itemDate == NewDate(item.date)
    IN  /\ ~(Truthy(dateFrom) /\ DateGreater(NewDate(dateFrom), itemDate))
        /\ ~(Truthy(dateTo) /\ DateGreater(itemDate, NewDate(dateTo)))

\* Array.prototype.filter
RECURSIVE Filter(_, _, _)
Filter(items, dateFrom, dateTo) ==
    IF items = << >> THEN << >>
    ELSE (IF KeepsItem(Head(items), dateFrom, dateTo) THEN <<Head(items)>> ELSE << >>)
             \o Filter(Tail(items), dateFrom, dateTo)

\* arr.slice(0, n): a negative n counts from the end
Slice0(arr, n) ==
    IF n >= 0 THEN SubSeq(arr, 1, Min({n, Len(arr)}))
    ELSE SubSeq(arr, 1, Len(arr) + n)

\* if (limit && filteredData.length > limit) filteredData = filteredData.slice(0, Number(limit))
LimitResults(items, limit) ==
    IF limit # 0 /\ Len(items) > limit THEN Slice0(items, limit) ELSE items

\* URLSearchParams serialization of a value, for the characters of a date
FormEncodeChar(c) ==
    CASE c \in WordChars \cup {"-", ".", "*"} -> c
      [] c = " " -> "+"
      [] c = ":" -> "%3A"
      [] c = "+" -> "%2B"
RECURSIVE FormEncode(_)
FormEncode(s) ==
    IF s = "" THEN "" ELSE FormEncodeChar(CharAt(s, 1)) \o FormEncode(Drop(s, 1))

\* url + (params.toString() ? `?${params.toString()}` : '')
SearchUrl(offset) ==
    MTENDER_API_BASE_URL \o "/tenders/"
        \o (IF Truthy(offset) THEN "?offset=" \o FormEncode(Val(offset)) ELSE "")

Null == [null |-> TRUE]
OrNull(v) == IF Truthy(v) THEN v ELSE Null

\* the object that is serialized into the result's text
FilteredResponse(args, upstream) ==
    LET limit    == EffectiveLimit(args.limit)
        filtered == IF Truthy(args.dateFrom) \/ Truthy(args.dateTo)
                    THEN Filter(upstream, args.dateFrom, args.dateTo)
                    ELSE upstream
        data     == LimitResults(filtered, limit)
    IN  [data |-> data,
         meta |-> [originalCount |-> Len(upstream),
                   filteredCount |-> Len(data),
                   filters |-> [dateFrom |-> OrNull(args.dateFrom),
                                dateTo |-> OrNull(args.dateTo),
                                offset |-> OrNull(args.offset),
                                limit |-> limit]]]

NoResponse == [data |-> << >>,
               meta |-> [originalCount |-> 0, filteredCount |-> 0,
                         filters |-> [dateFrom |-> Null, dateTo |-> Null,
                                      offset |-> Null, limit |-> 0]]]
NoSearchOutcome ==
    [kind |-> "none", isError |-> FALSE, response |-> NoResponse, message |-> "",
     error |-> NoError]
SearchReturned(r) ==
    [kind |-> "returned", isError |-> FALSE, response |-> r, message |-> "",
     error |-> NoError]

\* the outer catch of the CallTool handler, tools.ts 693-704
SearchCatch(e) ==
    IF isAxiosError(e)
    THEN [kind |-> "returned", isError |-> TRUE, response |-> NoResponse,
          message |-> "MTender API error: " \o e.message, error |-> NoError]
    ELSE [kind |-> "thrown", isError |-> FALSE, response |-> NoResponse,
          message |-> "", error |-> e]

\* [...response.data.data] when the answer has no data array
TypeErrorNotIterable ==
    [cls |-> "TypeError", code |-> "", message |-> "response.data.data is not iterable"]

\* the arguments drawn
LimitArgs == {Undefined, Some(-1), Some(0), Some(1), Some(2)}
OffsetArgs == {Undefined, Some("2024-01-01T00:00:00Z")}
DateFromArgs == {Undefined, Some(""), Some("2024-01-01T12:00:00Z"), Some("soon")}
DateToArgs == {Undefined, Some("2024-01-01T12:00:00Z"), Some("2024-01-01")}
SearchArguments ==
    [limit : LimitArgs, offset : OffsetArgs, dateFrom : DateFromArgs, dateTo : DateToArgs]

\* the lists the API answers with: every list of at most MaxItems items, one
\* list longer than the default limit, and an answer without a data array
ItemDates == {Some(IsoInstants[i]) : i \in DOMAIN IsoInstants} \cup {Undefined}
Items == [date : ItemDates]
LongList == [i \in 1..(DefaultLimit + 1) |-> [date |-> Some("2024-01-01T12:00:00Z")]]
UpstreamLists == {Some(l) : l \in SeqsUpTo(Items, MaxItems) \cup {LongList}} \cup {Undefined}

NoArgs == [limit |-> Undefined, offset |-> Undefined, dateFrom |-> Undefined,
           dateTo |-> Undefined]

notSearchVars == <<singleVars, concVars, resVars, toolVars, wrapVars, monVars, logVars>>

\* entry to the await: the wrapper counts the request, the handler reads the
\* arguments and calls axios.get
CallToolSearch(args) ==
    /\ searchPc = "idle"
    /\ searchArgs' = args
    /\ searchRequest' = Some(SearchUrl(args.offset))
    /\ activeRequestsCount' = activeRequestsCount + 1
    /\ searchPc' = "awaitAxios"
    /\ UNCHANGED <<searchUpstream, searchOutcome, notSearchVars>>

\* axios.get resolves: the list is filtered, cut and returned
SearchResolve(upstream) ==
    /\ searchPc = "awaitAxios"
    /\ searchUpstream' = upstream
    /\ searchOutcome' =
          IF IsDefined(upstream)
          THEN SearchReturned(FilteredResponse(searchArgs, Val(upstream)))
          ELSE SearchCatch(TypeErrorNotIterable)
    /\ activeRequestsCount' = activeRequestsCount - 1
    /\ searchPc' = "done"
    /\ UNCHANGED <<searchArgs, searchRequest, notSearchVars>>

\* axios.get rejects
SearchReject(e) ==
    /\ searchPc = "awaitAxios"
    /\ searchOutcome' = SearchCatch(e)
    /\ activeRequestsCount' = activeRequestsCount - 1
    /\ searchPc' = "done"
    /\ UNCHANGED <<searchArgs, searchRequest, searchUpstream, notSearchVars>>

SearchRequest == \E args \in SearchArguments : CallToolSearch(args)
SearchResponse == \E upstream \in UpstreamLists : SearchResolve(upstream)
SearchFailed == \E e \in AxiosErrors : SearchReject(e)

-----------------------------------------------------------------------------
(* createLoggingHandler: utils.ts 18-94                                    *)

\* how a promise settled: with a value (optional: undefined is a value) or an error
ResolvedWith(v) == [state |-> "resolved", value |-> v, error |-> NoError]
RejectedWith(e) == [state |-> "rejected", value |-> Undefined, error |-> e]
Unsettled == [state |-> "pending", value |-> Undefined, error |-> NoError]

\* resultString.length when JSON.stringify(result) is undefined
TypeErrorLength ==
    [cls |-> "TypeError", code |-> "",
     message |-> "Cannot read properties of undefined (reading 'length')"]

\* the body of the wrapper's try, lines 57-92: the handler's rejection is
\* rethrown; its value is serialized for the log with JSON.stringify(result),
\* which is undefined for the value undefined, and resultString.length then
\* throws inside the try, so the catch rethrows that TypeError
WrapperSettles(h) ==
    IF h.state = "rejected" THEN RejectedWith(h.error)
    ELSE IF ~IsDefined(h.value) THEN RejectedWith(TypeErrorLength)
    ELSE ResolvedWith(h.value)

\* a faulty variant: the catch forgets the counter
AfterCatchKept(n) == n

\* activeRequestsCount-- before return result (line 75) and before throw error (line 88)
AfterReturn(n) == n - 1
AfterCatch(n) == n - 1

\* req.params = JSON.parse(req.params) when params is a string that parses;
\* otherwise the request is handed on as it is
SafeParams(request) ==
    IF request.paramsType = "string" /\ request.parses
    THEN [request EXCEPT !.paramsType = "object"]
    ELSE request

\* the requests drawn: params an object, a string of JSON, another string
WrapperRequests ==
    {[paramsType |-> "object", params |-> "{\"name\":\"get_tender\"}", parses |-> TRUE],
     [paramsType |-> "string", params |-> "{\"name\":\"get_tender\"}", parses |-> TRUE],
     [paramsType |-> "string", params |-> "get_tender", parses |-> FALSE]}
NoRequest == [paramsType |-> "none", params |-> "", parses |-> FALSE]

\* how the wrapped handler may settle
HandlerSettlements ==
    {ResolvedWith(Undefined),
     ResolvedWith(Some("{\"content\":[]}")),
     RejectedWith([cls |-> "Error", code |-> "", message |-> "OCID is required"]),
     RejectedWith(McpError("InvalidParams", "Invalid MTender storage URL"))}

IdleWrapped ==
    [pc |-> "idle", request |-> NoRequest, passed |-> NoRequest, handlerCalls |-> 0,
     handler |-> Unsettled, outcome |-> Unsettled]

notWrapVars == <<singleVars, concVars, resVars, searchVars, toolVars, monVars, logVars>>

\* lines 22-59: the counter goes up, params is made an object, the handler is
\* called and awaited
WrapperEnter(i, request) ==
    /\ wrapped[i].pc = "idle"
    /\ activeRequestsCount' = activeRequestsCount + 1
    /\ wrapped' = [wrapped EXCEPT ![i].pc = "running",
                                  ![i].request = request,
                                  ![i].passed = SafeParams(request),
                                  ![i].handlerCalls = @ + 1]
    /\ UNCHANGED notWrapVars

\* lines 59-92: the handler has settled, the counter goes down and the
\* wrapper settles
WrapperLeave(i, h) ==
    /\ wrapped[i].pc = "running"
    /\ LET o == WrapperSettles(h)
       IN  /\ wrapped' = [wrapped EXCEPT ![i].pc = "done", ![i].handler = h,
                                         ![i].outcome = o]
           /\ activeRequestsCount' =
                 IF o.state = "resolved" THEN AfterReturn(activeRequestsCount)
                 ELSE AfterCatch(activeRequestsCount)
    /\ UNCHANGED notWrapVars

WrapperCalled == \E i \in Invocations, r \in WrapperRequests : WrapperEnter(i, r)
HandlerSettled == \E i \in Invocations, h \in HandlerSettlements : WrapperLeave(i, h)

-----------------------------------------------------------------------------
(* setupConnectionMonitoring: part_004 189-229                             *)

CheckIntervalMs == 30000
PingIntervalMs == 60000
StallMs == 120000

\* how many times the clock is moved on, by one check interval each time
MaxTicks == 8

NoCheck == [done |-> FALSE, at |-> 0, clientSilence |-> 0, healthy |-> TRUE,
            warned |-> FALSE, recovered |-> FALSE]

\* timeSinceLastMessage > 120000, line 203
Stalled(timeSinceLastMessage) == timeSinceLastMessage > StallMs

\* timeSinceLastMessage < 120000, line 212
Flowing(timeSinceLastMessage) == timeSinceLastMessage < StallMs

notMonVars == <<activeRequestsCount, singleVars, concVars, resVars, searchVars, toolVars,
                wrapVars, logVars>>

\* time passes; a timer that is due may still be waiting for the event loop
MonitorTick ==
    /\ monNow < MaxTicks * CheckIntervalMs
    /\ monNow' = monNow + CheckIntervalMs
    /\ UNCHANGED <<lastMessageTime, connectionHealthy, nextCheck, nextPing,
                   lastClientMessage, lastCheck, monLog, notMonVars>>

\* a message of the client arrives: nothing of the monitor listens
ClientMessage ==
    /\ lastClientMessage # monNow
    /\ lastClientMessage' = monNow
    /\ UNCHANGED <<monNow, lastMessageTime, connectionHealthy, nextCheck, nextPing,
                   lastCheck, monLog, notMonVars>>

\* the callback of connectionCheckInterval, lines 198-219: both ifs in order
ConnectionCheck ==
    /\ nextCheck <= monNow
    /\ nextCheck <= nextPing
    /\ LET timeSinceLastMessage == monNow - lastMessageTime
           warns    == Stalled(timeSinceLastMessage) /\ connectionHealthy
           healthy1 == IF warns THEN FALSE ELSE connectionHealthy
           recovers == ~healthy1 /\ Flowing(timeSinceLastMessage)
           healthy2 == IF recovers THEN TRUE ELSE healthy1
       IN  /\ connectionHealthy' = healthy2
           /\ monLog' = monLog
                \o (IF warns THEN <<"No messages received for 2 minutes, connection may be stalled">>
                    ELSE << >>)
                \o (IF recovers THEN <<"Connection recovered, messages flowing again">>
                    ELSE << >>)
           /\ lastCheck' = [done |-> TRUE, at |-> monNow,
                            clientSilence |-> monNow - lastClientMessage,
                            healthy |-> healthy2, warned |-> warns,
                            recovered |-> recovers]
    /\ nextCheck' = monNow + CheckIntervalMs
    /\ UNCHANGED <<monNow, lastMessageTime, nextPing, lastClientMessage, notMonVars>>

\* the callback of pingInterval, lines 222-226
ConnectionPing ==
    /\ nextPing <= monNow
    /\ nextPing <= nextCheck
    /\ lastMessageTime' = monNow
    /\ nextPing' = monNow + PingIntervalMs
    /\ UNCHANGED <<monNow, connectionHealthy, nextCheck, lastClientMessage, lastCheck,
                   monLog, notMonVars>>

-----------------------------------------------------------------------------
(* Logger: part_003 10-26, 51-64, 98-115, 145-169                          *)

LogLevelNames == <<"debug", "info", "warn", "error">>

\* const LOG_LEVELS, lines 21-26
LOG_LEVELS == [debug |-> 0, info |-> 1, warn |-> 2, error |-> 3]

\* process.env.DEBUG_LEVEL || "info", line 10: absent and empty are falsy
DEBUG_LEVEL(env) ==
    IF IsDefined(env) /\ Val(env) # "" THEN Val(env) ELSE "info"

\* LOG_LEVELS[key]: undefined for a key the object does not have
LevelValue(key) ==
    IF key \in DOMAIN LOG_LEVELS THEN Some(LOG_LEVELS[key]) ELSE Undefined

\* LOG_LEVELS[options.level || DEBUG_LEVEL] || LOG_LEVELS.info, line 52:
\* undefined and the number 0 are both falsy
LogLevel(option, env) ==
    LET key   == IF IsDefined(option) /\ Val(option) # "" THEN Val(option)
                 ELSE DEBUG_LEVEL(env)
        value == LevelValue(key)
    IN  IF IsDefined(value) /\ Val(value) # 0 THEN Val(value) ELSE LOG_LEVELS.info

\* options.file !== false, line 54
LogToFile(fileOption) == fileOption # Some(FALSE)

\* logLevelValue >= this.logLevel, line 148, then writeToFile, lines 98-99
Writes(lg, level) == LOG_LEVELS[level] >= lg.logLevel /\ lg.logToFile

\* log(level, message): the file after the call
Logged(lg, file, level, message) ==
    IF Writes(lg, level) THEN Append(file, [level |-> level, message |-> message])
    ELSE file

\* how many calls of log follow the construction
MaxLogCalls == 2

LevelSettings == {Undefined, Some("debug"), Some("info"), Some("warn"), Some("error"),
                  Some("verbose")}
FileOptions == {Undefined, Some(FALSE)}
NoLogger == [constructed |-> FALSE, level |-> Undefined, logLevel |-> 0, logToFile |-> FALSE]
NoLog == [called |-> FALSE, level |-> "", wrote |-> FALSE]

notLogVars == <<activeRequestsCount, singleVars, concVars, resVars, searchVars, toolVars,
                wrapVars, monVars>>

\* the module is loaded with DEBUG_LEVEL as the environment has it
LoadModule(env) ==
    /\ ~loggerObj.constructed
    /\ envLevel = Undefined
    /\ IsDefined(env)
    /\ envLevel' = env
    /\ UNCHANGED <<loggerObj, logFile, lastLog, notLogVars>>

\* new Logger(options), lines 51-64: the fields, then this.info("Logger initialized")
NewLogger(option, fileOption) ==
    /\ ~loggerObj.constructed
    /\ LET lg == [constructed |-> TRUE, level |-> option,
                  logLevel |-> LogLevel(option, envLevel),
                  logToFile |-> LogToFile(fileOption)]
       IN  /\ loggerObj' = lg
           /\ logFile' = Logged(lg, logFile, "info", "Logger initialized")
    /\ UNCHANGED <<envLevel, lastLog, notLogVars>>

\* logger.debug / info / warn / error, lines 145-169
LogCall(level) ==
    /\ loggerObj.constructed
    /\ Len(logFile) < MaxLogCalls + 1
    /\ logFile' = Logged(loggerObj, logFile, level, "message")
    /\ lastLog' = [called |-> TRUE, level |-> level, wrote |-> Writes(loggerObj, level)]
    /\ UNCHANGED <<envLevel, loggerObj, notLogVars>>

ModuleLoaded == \E env \in LevelSettings : LoadModule(env)
LoggerConstructed == \E o \in LevelSettings, f \in FileOptions : NewLogger(o, f)
LogCalled == \E i \in 1..Len(LogLevelNames) : LogCall(LogLevelNames[i])

-----------------------------------------------------------------------------
(* CallTool handler, the switch on the tool's name: tools.ts 156-704.  What
   search_tenders and fetch_tender_document do with a response is modelled
   above; here their part ends when the response has arrived.              *)

ToolNames ==
    {"search_tenders", "get_tender", "get_budget", "get_funding_source",
     "analyze_tender", "fetch_tender_document"}

\* const sections = args?.sections as string[] || [all five]: an array is
\* truthy, the empty one too
AllSections == <<"planning", "tender", "awards", "contracts", "implementation">>
SectionsToAnalyze(sections) == IF IsDefined(sections) THEN Val(sections) ELSE AllSections

\* the heading a case of the switch on section appends; no case, no text
SectionHeading(section) ==
    CASE section = "planning" -> <<"## Planning Section">>
      [] section = "tender" -> <<"## Tender Section">>
      [] section = "awards" -> <<"## Awards Section">>
      [] section = "contracts" -> <<"## Contracts Section">>
      [] section = "implementation" -> <<"## Implementation Section">>
      [] OTHER -> << >>

\* for (const section of sections) switch (section) ...: the level-2 headings
\* of the analysis, in the order they are appended
RECURSIVE SectionHeadings(_)
SectionHeadings(sections) ==
    IF sections = << >> THEN << >>
    ELSE SectionHeading(Head(sections)) \o SectionHeadings(Tail(sections))

TypeErrorRecord ==
    [cls |-> "TypeError", code |-> "",
     message |-> "Cannot read properties of undefined (reading 'tender')"]

\* the analysis of analyze_tender as its title and its level-2 headings; the
\* record is records[0].compiledRelease, read without a test
Analysis(ocid, sections, data) ==
    IF IsDefined(data.records) /\ Len(Val(data.records)) > 0
    THEN IF IsDefined(Val(data.records)[1].compiledRelease)
         THEN [ok |-> TRUE,
               text |-> <<"# OCDS Analysis for " \o ocid>> \o SectionHeadings(sections)
                            \o <<"## OCDS Compliance Summary">>]
         ELSE [ok |-> FALSE, text |-> << >>]
    ELSE [ok |-> TRUE, text |-> <<"No OCDS record found for " \o ocid>>]

\* what a tool does before its await: the error it throws, or the GET it issues
ToolPlan(name, args) ==
    LET ocid  == JSString(args.ocid)
        url   == JSString(args.documentUrl)
        throw(e) == [error |-> e, get |-> Undefined]
        get(u)   == [error |-> NoError, get |-> Some(u)]
        needsOcid(u) == IF ocid = "" THEN throw([cls |-> "Error", code |-> "",
                                                 message |-> "OCID is required"])
                        ELSE get(u)
    IN  CASE name = "search_tenders" -> get(SearchUrl(Undefined))
          [] name = "get_tender" ->
                needsOcid(MTENDER_API_BASE_URL \o "/tenders/" \o ocid)
          [] name = "get_budget" ->
                needsOcid(MTENDER_API_BASE_URL \o "/budgets/" \o ocid \o "/" \o ocid)
          [] name = "get_funding_source" ->
                needsOcid(MTENDER_API_BASE_URL \o "/budgets/" \o ocid \o "/"
                              \o FundingSourceId(ocid))
          [] name = "analyze_tender" ->
                needsOcid(MTENDER_API_BASE_URL \o "/tenders/" \o ocid)
          [] name = "fetch_tender_document" ->
                IF UrlAccepted(url) THEN get(url)
                ELSE throw(McpError("InvalidParams", "Invalid MTender storage URL"))
          \* no case matches and the switch has no default label: the throw of
          \* 'Unknown tool' at line 691 follows the block of the last case, which
          \* always returns or throws, so the handler ends without a value
          [] OTHER -> [error |-> NoError, get |-> Undefined]

\* the catches an error of a tool goes through: fetch_tender_document has its
\* own try around the fetch, every tool is inside the try of the switch
ToolCatch(name, e) ==
    IF name = "fetch_tender_document" /\ e.code # "InvalidParams"
    THEN OuterCatch(InnerCatch(e))
    ELSE OuterCatch(e)

NoResult == [kind |-> "none", of |-> Undefined, lines |-> << >>]
ToolReturned(r) ==
    [kind |-> "returned", isError |-> FALSE, result |-> r, error |-> NoError]
NoToolOutcome ==
    [kind |-> "none", isError |-> FALSE, result |-> NoResult, error |-> NoError]

\* the arguments drawn
OcidArgs == {Undefined, Some(""), Some("a"), Some("ocds-b3wdp1-MD-1613996472664")}
SectionsArgs ==
    {Undefined, Some(<< >>), Some(<<"tender">>), Some(<<"awards", "planning">>),
     Some(<<"tender", "tender">>)}
FormatArgs == {Undefined, Some("summary")}
ToolArguments ==
    [ocid : OcidArgs, sections : SectionsArgs, format : FormatArgs,
     documentUrl : {Undefined, Some(StoragePrefix \o "ab-12")}]
NoToolArgs ==
    [ocid |-> Undefined, sections |-> Undefined, format |-> Undefined,
     documentUrl |-> Undefined]

notToolVars == <<singleVars, concVars, resVars, searchVars, wrapVars, monVars, logVars>>

\* entry to the first await: the wrapper counts the request, the case of the
\* tool checks its arguments and calls axios, or throws
CallTool(name, args) ==
    /\ toolPc = "idle"
    /\ toolName' = name
    /\ toolArgs' = args
    /\ LET plan == ToolPlan(name, args)
       IN  IF IsDefined(plan.get)
           THEN /\ toolRequest' = plan.get
                /\ activeRequestsCount' = activeRequestsCount + 1
                /\ toolPc' = "awaitAxios"
                /\ UNCHANGED toolOutcome
           ELSE /\ toolOutcome' =
                      IF plan.error # NoError THEN ToolCatch(name, plan.error)
                      ELSE Thrown(WrapperSettles(ResolvedWith(Undefined)).error)
                /\ toolPc' = "done"
                /\ UNCHANGED <<toolRequest, activeRequestsCount>>
    /\ UNCHANGED <<toolFailure, notToolVars>>

\* axios resolves with the API's document: the tool builds its text
ToolResolve(data) ==
    /\ toolPc = "awaitAxios"
    /\ LET ocid == JSString(toolArgs.ocid)
           a    == Analysis(ocid, SectionsToAnalyze(toolArgs.sections), data)
       IN  CASE toolName \in {"search_tenders", "fetch_tender_document"} ->
                  /\ toolPc' = "responded"
                  /\ UNCHANGED <<toolOutcome, activeRequestsCount>>
             [] toolName = "analyze_tender" ->
                  /\ toolOutcome' =
                        IF a.ok
                        THEN ToolReturned([kind |-> "analysis", of |-> Undefined,
                                           lines |-> a.text])
                        ELSE ToolCatch(toolName, TypeErrorRecord)
                  /\ activeRequestsCount' = activeRequestsCount - 1
                  /\ toolPc' = "done"
             [] OTHER ->
                  /\ toolOutcome' =
                        ToolReturned([kind |-> IF toolArgs.format = Some("summary")
                                               THEN "summary" ELSE "full",
                                      of |-> Some(data), lines |-> << >>])
                  /\ activeRequestsCount' = activeRequestsCount - 1
                  /\ toolPc' = "done"
    /\ UNCHANGED <<toolName, toolArgs, toolRequest, toolFailure, notToolVars>>

\* axios rejects
ToolReject(e) ==
    /\ toolPc = "awaitAxios"
    /\ toolFailure' = e
    /\ toolOutcome' = ToolCatch(toolName, e)
    /\ activeRequestsCount' = activeRequestsCount - 1
    /\ toolPc' = "done"
    /\ UNCHANGED <<toolName, toolArgs, toolRequest, notToolVars>>

ToolRequest ==
    \E name \in ToolNames \cup {"delete_tender"}, args \in ToolArguments :
        CallTool(name, args)
ToolResponse == \E data \in UpstreamDocs : ToolResolve(data)
ToolFailed == \E e \in AxiosErrors : ToolReject(e)

-----------------------------------------------------------------------------
(* Specifications                                                          *)

HandlerInit ==
    /\ pc = "idle"
    /\ activeRequestsCount = 0
    /\ documentUrl = ""
    /\ storeSilent = FALSE
    /\ httpRequests = 0
    /\ contentType = Undefined
    /\ disposition = Undefined
    /\ filename = Undefined
    /\ strategy = "none"
    /\ decodersRun = << >>
    /\ outcome = NoOutcome

StreamIdle ==
    /\ listening = FALSE
    /\ chunks = << >>
    /\ promise = PendingPromise
    /\ emitted = << >>

NormIdle == rawText = "" /\ cleanedText = Undefined
NameIdle == headerParams = << >> /\ headerAbsent = TRUE /\ parsedName = << >>
LogIdle ==
    /\ envLevel = Undefined
    /\ loggerObj = NoLogger
    /\ logFile = << >>
    /\ lastLog = NoLog
\* lines 193-195 and the two setInterval calls
MonIdle ==
    /\ monNow = 0
    /\ lastMessageTime = 0
    /\ connectionHealthy = TRUE
    /\ nextCheck = CheckIntervalMs
    /\ nextPing = PingIntervalMs
    /\ lastClientMessage = 0
    /\ lastCheck = NoCheck
    /\ monLog = << >>
WrapIdle == wrapped = [i \in Invocations |-> IdleWrapped]
ToolIdle ==
    /\ toolPc = "idle"
    /\ toolName = ""
    /\ toolArgs = NoToolArgs
    /\ toolRequest = Undefined
    /\ toolFailure = NoError
    /\ toolOutcome = NoToolOutcome
SearchIdle ==
    /\ searchPc = "idle"
    /\ searchArgs = NoArgs
    /\ searchRequest = Undefined
    /\ searchUpstream = Undefined
    /\ searchOutcome = NoSearchOutcome
ResIdle ==
    /\ resPc = "idle"
    /\ resUri = ""
    /\ resBranch = "none"
    /\ resRequest = Undefined
    /\ resResponse = Undefined
    /\ resOutcome = NoResourceOutcome
ConcIdle ==
    /\ calls = [i \in Invocations |-> IdleCall]
    /\ chunkStores = [i \in Invocations |-> << >>]

\* the server after construction: no request in flight
Init == HandlerInit /\ StreamIdle /\ NormIdle /\ NameIdle /\ ConcIdle /\ ResIdle /\ SearchIdle /\ ToolIdle /\ WrapIdle /\ MonIdle /\ LogIdle

Next ==
    \/ Request
    \/ Response
    \/ RequestFailed
    \/ StreamData
    \/ StreamError
    \/ StreamEnd
    \/ StreamResume
    \/ Decoded
    \/ DecodeFailed

Spec == Init /\ [][Next]_vars

\* streamToBuffer(stream) has just been called on a stream that has emitted nothing
InitStream ==
    /\ HandlerInit /\ NormIdle /\ NameIdle /\ ConcIdle /\ ResIdle /\ SearchIdle /\ ToolIdle /\ WrapIdle /\ MonIdle /\ LogIdle
    /\ listening = TRUE
    /\ chunks = << >>
    /\ promise = PendingPromise
    /\ emitted = << >>

NextStream == StreamData \/ StreamError \/ StreamEnd

SpecStream == InitStream /\ [][NextStream]_vars

\* the normalizer applied to every text of Texts
InitNormalize ==
    /\ HandlerInit /\ StreamIdle /\ NameIdle /\ ConcIdle /\ ResIdle /\ SearchIdle /\ ToolIdle /\ WrapIdle /\ MonIdle /\ LogIdle
    /\ rawText \in Texts
    /\ cleanedText = Undefined

NextNormalize == NormalizeText

SpecNormalize == InitNormalize /\ [][NextNormalize]_vars

\* the filename parsed from every header of HeaderInputs, and from no header
InitFilename ==
    /\ HandlerInit /\ StreamIdle /\ NormIdle /\ ConcIdle /\ ResIdle /\ SearchIdle /\ ToolIdle /\ WrapIdle /\ MonIdle /\ LogIdle
    /\ headerAbsent \in BOOLEAN
    /\ headerParams \in (IF headerAbsent THEN {<< >>} ELSE HeaderInputs)
    /\ parsedName = << >>

NextFilename == ParseName

SpecFilename == InitFilename /\ [][NextFilename]_vars

\* the server after construction, then NumInv invocations of the tool
NextConc ==
    \/ ConcRequest
    \/ ConcRequestFailed
    \/ ConcResponse
    \/ ConcStreamData
    \/ ConcStreamFailed
    \/ ConcStreamEnd
    \/ ConcDecoded

SpecConc == Init /\ [][NextConc]_vars

\* the server after construction, then one resources/read request
NextResource == ResourceRequest \/ ResourceResponse \/ ResourceFailed

SpecResource == Init /\ [][NextResource]_vars

\* the server after construction, then one search_tenders call
NextSearch == SearchRequest \/ SearchResponse \/ SearchFailed

SpecSearch == Init /\ [][NextSearch]_vars

\* the server after construction, then one tools/call request
NextTools == ToolRequest \/ ToolResponse \/ ToolFailed

SpecTools == Init /\ [][NextTools]_vars

\* the server after construction, then NumInv requests to one wrapped handler
NextWrapper == WrapperCalled \/ HandlerSettled

SpecWrapper == Init /\ [][NextWrapper]_vars

\* the monitor from its start, with a client that sends when it likes
NextMonitor == MonitorTick \/ ClientMessage \/ ConnectionCheck \/ ConnectionPing

SpecMonitor == Init /\ [][NextMonitor]_vars

\* a Logger is constructed and then used
NextLogger == ModuleLoaded \/ LoggerConstructed \/ LogCalled

SpecLogger == Init /\ [][NextLogger]_vars


-----------------------------------------------------------------------------
(* Properties                                                              *)

InvalidUrlError == McpError("InvalidParams", "Invalid MTender storage URL")

\* C1: a documentUrl that does not match the declared pattern
\* ^https://storage\.mtender\.gov\.md/get/[\w-]+-\d+$ is rejected, and no HTTP
\* request is issued for it.
C1_OnlyPatternUrlsAccepted ==
    (pc # "idle" /\ ~MatchesDeclaredPattern(documentUrl)) =>
        /\ httpRequests = 0
        /\ pc = "done"
        /\ outcome.kind = "thrown"

\* C2: whenever the documentUrl is rejected (also when the argument is missing)
\* the handler is left by a thrown McpError InvalidParams 'Invalid MTender
\* storage URL', no HTTP GET has been issued, and neither catch turns the error
\* into another kind.
C2_RejectionIsInvalidParams ==
    /\ (pc # "idle" /\ ~StartsWith(documentUrl, StoragePrefix)) =>
          (pc = "done" /\ httpRequests = 0)
    /\ (pc = "done" /\ httpRequests = 0) => outcome = Thrown(InvalidUrlError)
    /\ outcome.error.code = "InvalidParams" => httpRequests = 0

C2_Witness ==
    /\ pc = "done"
    /\ documentUrl = "undefined"
    /\ outcome = Thrown(InvalidUrlError)

PdfType == Some("application/pdf")
IsWordType(ct) ==
    /\ IsDefined(ct)
    /\ Includes(Val(ct), "msword") \/ Includes(Val(ct), "openxmlformats-officedocument")

\* C3: once the response headers are read, the PDF strategy is the one selected
\* iff the content-type is exactly 'application/pdf', the Word strategy iff it is
\* not and the content-type contains 'msword' or
\* 'openxmlformats-officedocument'; at most one decoder runs per request, and it
\* is the decoder of the selected strategy.
C3_OneStrategyByContentType ==
    /\ strategy # "none" =>
          /\ (strategy = "pdf") <=> (contentType = PdfType)
          /\ (strategy = "word") <=> (contentType # PdfType /\ IsWordType(contentType))
    /\ Len(decodersRun) <= 1
    /\ decodersRun # << >> => (decodersRun = <<strategy>> /\ strategy \in {"pdf", "word"})
    /\ pc = "awaitDecode" => Len(decodersRun) = 1

C3_Witness ==
    /\ pc = "done"
    /\ outcome.kind = "returned"
    /\ decodersRun = <<"word">>
    /\ contentType =
          Some("application/vnd.openxmlformats-officedocument.wordprocessingml.document")

\* C4: a response whose content-type is neither exactly 'application/pdf' nor
\* contains 'msword' or 'openxmlformats-officedocument' (an absent header
\* included) fails with the 'Unsupported document type' error naming the
\* content-type, and neither streamToBuffer nor a decoder is invoked.
C4_UnsupportedTypeError ==
    (pc \notin {"idle", "awaitAxios"} /\ httpRequests > 0 /\ strategy # "none"
       /\ contentType # PdfType /\ ~IsWordType(contentType)) =>
        /\ pc = "done"
        /\ outcome.kind = "thrown"
        /\ outcome.error.cls = "McpError"
        /\ outcome.error.code = "InvalidRequest"
        /\ outcome.error.message =
              "Unsupported document type: " \o JSString(contentType)
        /\ ~listening
        /\ decodersRun = << >>

\* the indexes of the 'error' and 'end' events emitted so far
Terminals == {i \in 1..Len(emitted) : emitted[i].type \in {"error", "end"}}

\* the chunks of a sequence of events, concatenated in order
RECURSIVE ChunksOf(_)
ChunksOf(evs) == IF evs = << >> THEN "" ELSE Head(evs).chunk \o ChunksOf(Tail(evs))

\* C5: when the first 'error' event comes before any 'end' event, the promise of
\* streamToBuffer is rejected with that error, whatever 'data' came before and
\* whatever events come after.
C5_ErrorBeforeEndRejects ==
    (Terminals # {} /\ emitted[Min(Terminals)].type = "error") =>
        /\ promise.state = "rejected"
        /\ promise.error = emitted[Min(Terminals)].error

C5_Witness ==
    /\ Len(emitted) = 3
    /\ emitted[1].type = "data"
    /\ emitted[2].type = "error"
    /\ emitted[3].type = "end"
    /\ promise.state = "rejected"
    /\ promise.error = emitted[2].error

\* C6: while neither 'end' nor 'error' has been emitted the promise is pending;
\* when 'end' comes with no 'error' before it, the promise is resolved with the
\* chunks that arrived before that 'end', concatenated in arrival order, and
\* later events do not change it.
C6_EndResolvesWithAllChunks ==
    /\ Terminals = {} => promise.state = "pending"
    /\ (Terminals # {} /\ emitted[Min(Terminals)].type = "end") =>
          /\ promise.state = "resolved"
          /\ promise.buffer = ChunksOf(SubSeq(emitted, 1, Min(Terminals) - 1))

C6_Witness ==
    /\ emitted = <<DataEvent("x"), DataEvent("y"), EndEvent>>
    /\ promise.state = "resolved"
    /\ promise.buffer = "xy"

\* C7: the normalized text contains no CR immediately followed by LF.
C7_NoCRLF ==
    IsDefined(cleanedText) => ~Includes(Val(cleanedText), "\r\n")

\* C8: the normalized text contains no run of three or more LF, is empty or
\* begins and ends with a character that is not white space, and
\* 'Title CRLF CRLF CRLF CRLF Body CRLF' normalizes to 'Title LF LF Body'.
C8_NoLongLFRunAndTrimmed ==
    IsDefined(cleanedText) =>
        LET t == Val(cleanedText)
        IN  /\ ~Includes(t, "\n\n\n")
            /\ t = "" \/ (CharAt(t, 1) \notin WhiteSpace /\ CharAt(t, Len(t)) \notin WhiteSpace)
            /\ rawText = ExampleText => t = "Title\n\nBody"

C8_Witness ==
    /\ rawText = ExampleText
    /\ cleanedText = Some("Title\n\nBody")

\* the %20 escapes of a value decoded
RECURSIVE DecodeSpaces(_)
DecodeSpaces(s) ==
    IF s = "" THEN ""
    ELSE IF StartsWith(s, "%20") THEN " " \o DecodeSpaces(Drop(s, 3))
    ELSE CharAt(s, 1) \o DecodeSpaces(Drop(s, 1))

\* C9: from a header that is filename*=utf-8''<value> the filename is the
\* percent-decoded value: 'report%20final.pdf' gives 'report final.pdf'.
C9_ExtendedValueDecoded ==
    (parsedName # << >> /\ ~headerAbsent /\ Len(headerParams) = 1
       /\ headerParams[1].kind = "ext") =>
        parsedName[1] = Some(DecodeSpaces(headerParams[1].value))

KindsOf(ps) == {ps[i].kind : i \in 1..Len(ps)}
ExtIndexes(ps) == {i \in 1..Len(ps) : ps[i].kind = "ext"}

\* C10: from a header with one extended and a plain quoted filename parameter,
\* in either order, the filename is the value of the extended parameter alone;
\* from a header with no extended parameter whose first filename parameter is
\* the quoted one the filename is its value without the quotes; with no
\* header the filename is absent.
C10_ExtendedTakesPrecedence ==
    parsedName # << >> =>
        /\ headerAbsent => parsedName[1] = Undefined
        /\ (~headerAbsent /\ Cardinality(ExtIndexes(headerParams)) = 1
              /\ "quoted" \in KindsOf(headerParams)) =>
             LET v == headerParams[CHOOSE i \in ExtIndexes(headerParams) : TRUE].value
             IN  parsedName[1] \in {Some(v), Some(DecodeSpaces(v))}


\* C11: while the request is waiting for a document store that never answers,
\* a step that ends the wait with a transport error is possible (the time
\* limit of the request).
C11_SilentStoreTimesOut ==
    (pc = "awaitAxios" /\ storeSilent) => ENABLED RequestFailed

\* C13: every failure of fetch_tender_document leaves the handler as one thrown
\* structured error (an McpError with a kind and a message), never as a raw
\* exception, and a decoder failure carries the decoder's message.  Stated for
\* responses that carry a content-type; the absent header is the case of C4.
C13_FailuresAreStructured ==
    (pc = "done" /\ (IsDefined(contentType) \/ strategy = "none")) =>
        /\ outcome.kind \in {"returned", "thrown"}
        /\ outcome.kind = "returned" => ~outcome.isError
        /\ outcome.kind = "thrown" =>
              /\ outcome.error.cls = "McpError"
              /\ outcome.error.code # ""
              /\ outcome.error.message # ""

\* C14 as claimed: collection begins only after the fetch has returned, the
\* dispatch decision is taken only after collection has completed, and
\* extraction starts only after dispatch.
C14_DispatchAfterCollection ==
    /\ listening => pc \notin {"idle", "awaitAxios"}
    /\ strategy # "none" => promise.state = "resolved"
    /\ decodersRun # << >> => strategy \in {"pdf", "word"}

\* C14 as amended: the stages run in the order fetch, dispatch, collection,
\* extraction, normalization: the dispatch decision is taken when the response
\* has arrived and before collection begins, collection begins only for a
\* supported type, extraction starts only after collection has completed, and
\* text is returned only after extraction.
C14_StagesInCodeOrder ==
    /\ strategy # "none" => (httpRequests = 1 /\ pc \notin {"idle", "awaitAxios"})
    /\ listening => strategy \in {"pdf", "word"}
    /\ ~listening => (emitted = << >> /\ chunks = << >>)
    /\ pc = "awaitStream" => (listening /\ decodersRun = << >>)
    /\ decodersRun # << >> => (promise.state = "resolved" /\ decodersRun = <<strategy>>)
    /\ outcome.kind = "returned" => decodersRun # << >>

C14_Witness ==
    /\ pc = "done"
    /\ outcome.kind = "returned"
    /\ outcome.text = "Title\n\nBody"
    /\ decodersRun = <<"pdf">>
    /\ promise.buffer = "xy"

\* C15: when an invocation that received a response has finished, the response
\* stream has ended or has been closed by an error.  Stated for responses that
\* carry a content-type; the absent header is the case of C4.
C15_StreamFinishedAtExit ==
    (pc = "done" /\ strategy # "none" /\ IsDefined(contentType)) => Terminals # {}

\* C18: an invocation issues at most one HTTP GET, none when the URL is
\* rejected, and exactly one has been issued when it ends with a failed fetch.
C18_AtMostOneRequest ==
    /\ httpRequests <= 1
    /\ (pc # "idle" /\ ~StartsWith(documentUrl, StoragePrefix)) => httpRequests = 0
    /\ (pc = "done" /\ outcome.error.code = "InternalError") => httpRequests = 1

C18_Witness ==
    /\ pc = "done"
    /\ httpRequests = 1
    /\ strategy = "none"
    /\ outcome = Thrown(McpError("InternalError",
                                 "Failed to fetch document: socket hang up"))

\* C12: a transport failure of the fetch and an HTTP failure of the fetch leave
\* the handler with different error kinds.
C12_TransportAndHttpKindsDiffer ==
    \A i, j \in Invocations :
        (/\ calls[i].pc = "done" /\ calls[i].failure \in TransportErrors
         /\ calls[j].pc = "done" /\ calls[j].failure \in HttpErrors)
        => calls[i].outcome.error.code # calls[j].outcome.error.code

\* the outcome of an invocation run alone, from its URL and what the store sent
SoloOutcome(c) ==
    IF ~UrlAccepted(c.documentUrl) THEN Thrown(InvalidUrlError)
    ELSE IF c.failure # NoError THEN OuterCatch(InnerCatch(c.failure))
    ELSE IF Dispatch(c.contentType) = "crash"
         THEN Thrown(TypeErrorIncludes)
    ELSE IF Dispatch(c.contentType) = "unsupported"
         THEN Thrown(McpError("InvalidRequest",
                              "Unsupported document type: " \o Val(c.contentType)))
    ELSE IF c.emitted[Len(c.emitted)].type = "error"
         THEN OuterCatch(InnerCatch(c.emitted[Len(c.emitted)].error))
    ELSE LET r == DecoderResult(ChunksOf(c.emitted))
         IN  IF r.ok
             THEN Returned(Normalize(r.text),
                           [filename |-> ParseFilename(c.disposition),
                            contentType |-> c.contentType,
                            source |-> c.documentUrl])
             ELSE Thrown(r.error)

\* C16: whatever the interleaving, an invocation's outcome is the one it has
\* when run alone, and its buffer holds the chunks of its own stream only.
C16_InvocationsIndependent ==
    \A i \in Invocations :
        /\ calls[i].pc = "awaitStream" =>
              BufferConcat(chunkStores[ChunkStore(i)]) = ChunksOf(calls[i].emitted)
        /\ calls[i].pc = "awaitDecode" =>
              calls[i].promise.buffer = ChunksOf(calls[i].emitted)
        /\ calls[i].pc = "done" => calls[i].outcome = SoloOutcome(calls[i])

C16_Witness ==
    /\ calls[1].pc = "awaitDecode"
    /\ calls[1].promise.buffer = "x"
    /\ calls[2].pc = "done"
    /\ calls[2].emitted = <<DataEvent("y"), EndEvent>>
    /\ calls[2].outcome.kind = "returned"
    /\ calls[2].outcome.text = "y\n\ny"
    /\ activeRequestsCount = 1

\* the two invocations have the same URL and got the same headers and bytes
SameUpstream(i, j) ==
    /\ calls[i].documentUrl = calls[j].documentUrl
    /\ calls[i].failure = calls[j].failure
    /\ calls[i].contentType = calls[j].contentType
    /\ calls[i].disposition = calls[j].disposition
    /\ calls[i].emitted = calls[j].emitted

\* C17: two invocations with the same valid URL to which the store sent the
\* same headers and bytes return the same text and the same metadata.
C17_SameInputSameResult ==
    \A i, j \in Invocations :
        (/\ calls[i].pc = "done" /\ calls[j].pc = "done"
         /\ UrlAccepted(calls[i].documentUrl)
         /\ SameUpstream(i, j))
        => /\ calls[i].outcome.kind = calls[j].outcome.kind
           /\ calls[i].outcome.text = calls[j].outcome.text
           /\ calls[i].outcome.metadata = calls[j].outcome.metadata
           /\ calls[i].outcome.error = calls[j].outcome.error

C17_Witness ==
    /\ calls[1].pc = "done" /\ calls[2].pc = "done"
    /\ SameUpstream(1, 2)
    /\ calls[1].outcome.kind = "returned"
    /\ calls[1].outcome.text = "x\n\nx"
    /\ calls[2].outcome.text = "x\n\nx"
    /\ calls[1].outcome.metadata =
          [filename |-> Some("a.pdf"), contentType |-> Some("application/pdf"),
           source |-> StoragePrefix \o "ab-12"]

\* the URI of a resource template for an ocid, and the GET that belongs to it
TemplateUri(name, ocid) == "mtender://" \o name \o "/" \o ocid
TemplateGet(name, ocid) ==
    MTENDER_API_BASE_URL \o
        (CASE name = "tender" -> "/tenders/" \o ocid
           [] name = "budget" -> "/budgets/" \o ocid \o "/" \o ocid
           [] name = "funding" -> "/budgets/" \o ocid \o "/" \o FundingSourceId(ocid))

\* C19: a read of mtender://tender/{ocid}, mtender://budget/{ocid} or
\* mtender://funding/{ocid} issues the GET of its template and returns contents
\* with the requested uri and the API's JSON as text; a read of
\* mtender://latest-tenders issues the GET of /tenders/ and returns its JSON.
C19_TemplateUrisAreServed ==
    /\ \A name \in {"tender", "budget", "funding"}, ocid \in Ocids :
          (resPc # "idle" /\ resUri = TemplateUri(name, ocid)) =>
              /\ resRequest = Some(TemplateGet(name, ocid))
              /\ (resPc = "done" /\ IsDefined(resResponse)) =>
                    /\ resOutcome.kind = "returned"
                    /\ resOutcome.contents.uri = resUri
                    /\ resOutcome.contents.text = JSONStringify(Val(resResponse))
    /\ (resPc # "idle" /\ resUri = "mtender://latest-tenders") =>
          /\ resRequest = Some(MTENDER_API_BASE_URL \o "/tenders/")
          /\ (resPc = "done" /\ IsDefined(resResponse)) =>
                /\ resOutcome.kind = "returned"
                /\ resOutcome.contents.uri = resUri
                /\ resOutcome.contents.text = JSONStringify(Val(resResponse))

\* the limit a caller asked for: the argument, 100 when it is absent
AskedLimit == IF IsDefined(searchArgs.limit) THEN Val(searchArgs.limit) ELSE 100

\* an item's date is within the bounds given, the bounds included
InBounds(item) ==
    /\ Truthy(searchArgs.dateFrom) =>
          Val(NewDate(searchArgs.dateFrom)) <= Val(NewDate(item.date))
    /\ Truthy(searchArgs.dateTo) =>
          Val(NewDate(item.date)) <= Val(NewDate(searchArgs.dateTo))
InBoundsItems == SelectSeq(Val(searchUpstream), InBounds)

\* every date given or received is a date
AllDatesValid ==
    /\ Truthy(searchArgs.dateFrom) => IsDefined(NewDate(searchArgs.dateFrom))
    /\ Truthy(searchArgs.dateTo) => IsDefined(NewDate(searchArgs.dateTo))
    /\ \A k \in DOMAIN Val(searchUpstream) : IsDefined(NewDate(Val(searchUpstream)[k].date))

\* search_tenders has returned a list for a limit that is a count
SearchAnswered ==
    /\ searchPc = "done"
    /\ searchOutcome.kind = "returned" /\ ~searchOutcome.isError
    /\ IsDefined(searchUpstream)
    /\ AskedLimit >= 0
    /\ AllDatesValid

\* C20: search_tenders returns at most limit items (100 when no limit is
\* given): the first limit items, in upstream order, of the upstream list
\* filtered by dateFrom and dateTo, bounds included; meta.filteredCount is the
\* number of items returned and meta.originalCount the number of upstream items.
C20_AtMostLimitItems ==
    SearchAnswered =>
        LET r == searchOutcome.response
        IN  /\ Len(r.data) <= AskedLimit
            /\ r.data = SubSeq(InBoundsItems, 1, Min({AskedLimit, Len(InBoundsItems)}))
            /\ r.meta.filteredCount = Len(r.data)
            /\ r.meta.originalCount = Len(Val(searchUpstream))

\* C28: the normalizer is idempotent: normalizing a normalized text gives the
\* same text.
C28_NormalizeIdempotent ==
    IsDefined(cleanedText) => Normalize(Val(cleanedText)) = Val(cleanedText)

OcidTools == {"get_tender", "get_budget", "get_funding_source", "analyze_tender"}

OcidRequired == [cls |-> "Error", code |-> "", message |-> "OCID is required"]

\* C21: a call of get_tender, get_budget, get_funding_source or analyze_tender
\* without an ocid argument fails with 'OCID is required' and issues no HTTP
\* request.
C21_MissingOcidRejected ==
    (toolPc # "idle" /\ toolName \in OcidTools /\ ~IsDefined(toolArgs.ocid)) =>
        /\ toolRequest = Undefined
        /\ toolOutcome.kind = "thrown"
        /\ toolOutcome.error = OcidRequired

\* the headings of the sections listed
SectionTitle(section) ==
    CASE section = "planning" -> "## Planning Section"
      [] section = "tender" -> "## Tender Section"
      [] section = "awards" -> "## Awards Section"
      [] section = "contracts" -> "## Contracts Section"
      [] section = "implementation" -> "## Implementation Section"
ExpectedSections ==
    IF ~IsDefined(toolArgs.sections) \/ Val(toolArgs.sections) = << >>
    THEN AllSections
    ELSE Val(toolArgs.sections)
\* the section headings of an analysis: all but its title and its summary
EmittedSections ==
    LET lines == toolOutcome.result.lines
    IN  SubSeq(lines, 2, Len(lines) - 1)

\* C22: analyze_tender emits all five sections in their order when sections is
\* omitted and when it is an empty array, and the listed sections in the order
\* given otherwise.
C22_SectionsAnalyzed ==
    (/\ toolPc = "done" /\ toolName = "analyze_tender"
     /\ toolOutcome.kind = "returned" /\ ~toolOutcome.isError
     /\ Len(toolOutcome.result.lines) > 1)
    => EmittedSections = [k \in DOMAIN ExpectedSections |-> SectionTitle(ExpectedSections[k])]

\* C23: the funding source requested for an OCID X is X-FS-<digits>: the whole
\* OCID is a prefix of the identifier.
C23_FundingIdExtendsOcid ==
    (/\ toolPc # "idle" /\ toolName = "get_funding_source"
     /\ IsDefined(toolArgs.ocid) /\ IsDefined(toolRequest)) =>
        LET ocid == Val(toolArgs.ocid)
            base == MTENDER_API_BASE_URL \o "/budgets/" \o ocid \o "/"
            id   == Drop(Val(toolRequest), Len(base))
        IN  /\ StartsWith(Val(toolRequest), base)
            /\ StartsWith(id, ocid \o "-FS-")
            /\ Len(id) > Len(ocid \o "-FS-")
            /\ \A k \in (Len(ocid \o "-FS-") + 1)..Len(id) : CharAt(id, k) \in Digits

C25_UnknownToolRejected ==
    (toolPc # "idle" /\ toolName \notin ToolNames) =>
        /\ toolPc = "done"
        /\ toolRequest = Undefined
        /\ toolOutcome.kind = "thrown"
        /\ toolOutcome.error.message = "Unknown tool: " \o toolName

\* C26: the wrapper calls the handler once and settles exactly as the handler
\* did: it resolves with the handler's value, undefined included, or rejects
\* with the handler's error.
C26_WrapperTransparent ==
    \A i \in Invocations :
        wrapped[i].pc = "done" =>
            /\ wrapped[i].handlerCalls = 1
            /\ wrapped[i].outcome = wrapped[i].handler

Running == {i \in Invocations : wrapped[i].pc = "running"}

\* C27: whatever the interleaving, activeRequestsCount is the number of
\* invocations that have started and not completed; it is never negative and is
\* 0 when no request is in flight.
C27_CountsRequestsInFlight ==
    /\ activeRequestsCount = Cardinality(Running)
    /\ activeRequestsCount >= 0
    /\ Running = {} => activeRequestsCount = 0

C27_Witness ==
    /\ wrapped[1].pc = "done"
    /\ wrapped[1].outcome.state = "rejected"
    /\ wrapped[2].pc = "running"
    /\ activeRequestsCount = 1

\* C29: a connection check that runs when no message has come from the client
\* for more than two minutes leaves connectionHealthy false.
C29_SilentClientIsFlagged ==
    (lastCheck.done /\ lastCheck.clientSilence > StallMs) => ~lastCheck.healthy

\* the level the logger was configured with: the constructor's option, else
\* DEBUG_LEVEL, and 'info' when that is no level
ConfiguredLevel ==
    LET set == IF IsDefined(loggerObj.level) THEN Val(loggerObj.level)
               ELSE IF IsDefined(envLevel) THEN Val(envLevel) ELSE "info"
    IN  IF set \in DOMAIN LOG_LEVELS THEN set ELSE "info"

\* C30: with file logging on, a call of log writes an entry iff the rank of its
\* level is at least the rank of the configured level; so a logger configured
\* with 'debug' writes debug entries, and one configured with no known level
\* filters as 'info'.
C30_WritesFromConfiguredLevel ==
    (lastLog.called /\ loggerObj.logToFile) =>
        (lastLog.wrote <=> LOG_LEVELS[lastLog.level] >= LOG_LEVELS[ConfiguredLevel])

====
